---- MODULE Spec2Model ----
(***************************************************************************)
(* Model of svg2gcode's document walk (lib/src/converter/visit.rs):        *)
(* depth_first_visit with its two walkers visit_node and                   *)
(* visit_use_referenced_node, and the ConversionVisitor's visit_enter and  *)
(* visit_exit, which keep the transform stack of the sink, the name stack  *)
(* and the viewport-dimension stack in step with the walk and hand the     *)
(* sink the path segments of every primitive element.  resolved is the     *)
(* history of visit_enter's local viewport_size.                           *)
(*                                                                         *)
(* Numbers (f64 in the source) are exact rationals <<n, d>> with d > 0.    *)
(* Option<T> is a sequence of length at most one: <<>> is None and <<v>>   *)
(* is Some(v).                                                             *)
(***************************************************************************)
EXTENDS Integers, Sequences, FiniteSets, TLC

VARIABLES doc, options, pc, stack, tstack, nstack, vstack, drawn, log, resolved

vars == <<doc, options, pc, stack, tstack, nstack, vstack, drawn, log, resolved>>

(***************************************************************************)
(* Bounds of the model.                                                    *)
(***************************************************************************)
\* Largest number of nodes of a generated document (the hand-written
\* documents of the gallery have up to six).
MaxNodes == 3
\* Largest length drawn for a length attribute or a view box.
MaxLen == 2
\* The number of nested walker calls the call stack holds (the call on the
\* document root included): one more overflows it.
MaxDepth == 10
\* Largest number of points of a points attribute, and of segments of a d
\* attribute.
MaxPoints == 3
\* Largest number of functions of a transform attribute.
MaxFns == 3

(***************************************************************************)
(* Option<T>.                                                              *)
(***************************************************************************)
None == <<>>
Some(v) == <<v>>
IsSome(o) == Len(o) = 1
IsNone(o) == Len(o) = 0
Unwrap(o) == o[1]
UnwrapOr(o, d) == IF IsSome(o) THEN o[1] ELSE d
\* Option::or
OrElse(o, p) == IF IsSome(o) THEN o ELSE p

(***************************************************************************)
(* f64 arithmetic, exact.                                                  *)
(***************************************************************************)
Abs(a) == IF a < 0 THEN -a ELSE a

RECURSIVE GCD(_, _)
GCD(a, b) == IF b = 0 THEN a ELSE GCD(b, a % b)

Frac(n, d) ==
    LET g == GCD(Abs(n), Abs(d))
        s == IF d < 0 THEN -1 ELSE 1
    IN  <<(s * n) \div g, (s * d) \div g>>

R(n) == <<n, 1>>
Zero == R(0)
One == R(1)
RAdd(p, q) == Frac(p[1] * q[2] + q[1] * p[2], p[2] * q[2])
RSub(p, q) == Frac(p[1] * q[2] - q[1] * p[2], p[2] * q[2])
RMul(p, q) == Frac(p[1] * q[1], p[2] * q[2])
RDiv(p, q) == Frac(p[1] * q[2], p[2] * q[1])
RNeg(p) == <<-p[1], p[2]>>
RLt(p, q) == p[1] * q[2] < q[1] * p[2]
RLe(p, q) == p[1] * q[2] <= q[1] * p[2]
RMin(p, q) == IF RLe(p, q) THEN p ELSE q

(***************************************************************************)
(* euclid's Transform2D: the row-major matrix [m11 m12 m21 m22 m31 m32],   *)
(* which maps the point (x, y) to (x*m11 + y*m21 + m31, x*m12 + y*m22 +    *)
(* m32).                                                                   *)
(***************************************************************************)
Identity == <<One, Zero, Zero, One, Zero, Zero>>
Translation(x, y) == <<One, Zero, Zero, One, x, y>>
Scale(x, y) == <<x, Zero, Zero, y, Zero, Zero>>

\* The product of two matrices.
Product(a, b) ==
    << RAdd(RMul(a[1], b[1]), RMul(a[2], b[3])),
       RAdd(RMul(a[1], b[2]), RMul(a[2], b[4])),
       RAdd(RMul(a[3], b[1]), RMul(a[4], b[3])),
       RAdd(RMul(a[3], b[2]), RMul(a[4], b[4])),
       RAdd(RAdd(RMul(a[5], b[1]), RMul(a[6], b[3])), b[5]),
       RAdd(RAdd(RMul(a[5], b[2]), RMul(a[6], b[4])), b[6]) >>

\* a.then(b): the transform that applies a first and b second.  (The two
\* operands are evaluated once, then multiplied.)
Then(a, b) == CHOOSE m \in {Product(x, y) : x \in {a}, y \in {b}} : TRUE

TransformPoint(t, p) ==
    << RAdd(RAdd(RMul(p[1], t[1]), RMul(p[2], t[3])), t[5]),
       RAdd(RAdd(RMul(p[1], t[2]), RMul(p[2], t[4])), t[6]) >>

(***************************************************************************)
(* The document: roxmltree's immutable tree.  doc is the sequence of its   *)
(* nodes in document order (node i's descendants follow it directly);      *)
(* parent 0 is the document root, which is no element and has no           *)
(* attributes.  An attribute is an Option.  A style value is the sequence  *)
(* of its declarations, an id is a sequence of characters, and a length    *)
(* attribute holds its value in user units.  A viewBox attribute holds    *)
(* the numbers of its text, which parses when they are four; a             *)
(* preserveAspectRatio attribute that does not parse holds Malformed; a    *)
(* transform or d attribute holds the tokens its parser yields, the last   *)
(* of them ParseError where the text stops parsing; a points attribute     *)
(* holds the points its parser yields (it stops at what it cannot parse).  *)
(***************************************************************************)
SVG_TAG_NAME == "svg"
CLIP_PATH_TAG_NAME == "clipPath"
PATH_TAG_NAME == "path"
POLYLINE_TAG_NAME == "polyline"
POLYGON_TAG_NAME == "polygon"
RECT_TAG_NAME == "rect"
CIRCLE_TAG_NAME == "circle"
ELLIPSE_TAG_NAME == "ellipse"
LINE_TAG_NAME == "line"
GROUP_TAG_NAME == "g"
DEFS_TAG_NAME == "defs"
USE_TAG_NAME == "use"
MARKER_TAG_NAME == "marker"
SYMBOL_TAG_NAME == "symbol"
\* The node type of a text node, which is no element.
TEXT_NODE == "#text"

HIDDEN == "display:none"

\* The value of a preserveAspectRatio attribute whose text does not parse.
Malformed == "malformed"

\* The token a list parser yields where the text stops parsing.
ParseError == <<"error">>

IsParseError(token) == token[1] = "error"

LengthAttrs ==
    {"x", "y", "width", "height", "rx", "ry", "cx", "cy", "r", "x1", "y1", "x2", "y2"}

NoLengths == [a \in LengthAttrs |-> None]

Node(tag, parent) ==
    [ tag |-> tag, parent |-> parent, style |-> None, id |-> None,
      href |-> None, xhref |-> None, viewBox |-> None, par |-> None,
      transform |-> None, origin |-> None, len |-> NoLengths,
      points |-> None, d |-> None ]

Nodes == DOMAIN doc

\* node.children(), in document order
Children(n) == SelectSeq([i \in 1..Len(doc) |-> i], LAMBDA m : doc[m].parent = n)

RECURSIVE IsAncestor(_, _)
\* a is a proper ancestor of n
IsAncestor(a, n) ==
    /\ n # 0
    /\ \/ doc[n].parent = a
       \/ IsAncestor(a, doc[n].parent)

\* node.is_element()
IsElement(n) == doc[n].tag # TEXT_NODE

\* node.attribute("style").is_some_and(|style| style.contains("display:none"))
IsHidden(n) ==
    /\ IsSome(doc[n].style)
    /\ \E i \in DOMAIN Unwrap(doc[n].style) : Unwrap(doc[n].style)[i] = HIDDEN

\* should_render_node without the exclusion of defs, marker and symbol.
should_render_node_any_tag(n) == IsElement(n) /\ ~IsHidden(n)

should_render_node(n) ==
    /\ IsElement(n)
    /\ ~IsHidden(n)
    /\ doc[n].tag \notin {DEFS_TAG_NAME, MARKER_TAG_NAME, SYMBOL_TAG_NAME}

\* href.strip_prefix('#')
StripPrefix(href) ==
    IF Len(href) >= 1 /\ href[1] = "#" THEN Some(Tail(href)) ELSE None

\* The first node in document order whose id attribute equals the fragment of
\* the href (or, without an href, of the xlink:href) attribute.
resolve_use_href(n) ==
    LET href == OrElse(doc[n].href, doc[n].xhref)
        id == IF IsSome(href) THEN StripPrefix(Unwrap(href)) ELSE None
        hits == {m \in Nodes : doc[m].id = id}
    IN  IF IsNone(id) \/ hits = {}
        THEN None
        ELSE Some(CHOOSE m \in hits : \A k \in hits : m <= k)

(***************************************************************************)
(* The collaborators of visit_enter that live outside visit.rs.            *)
(***************************************************************************)
\* ConversionVisitor::length_attr_to_user_units: the attribute's length in
\* user units, or None without the attribute.
length_attr_to_user_units(n, attr) == doc[n].len[attr]

\* svg_transform_into_euclid_transform, on one parsed function of a transform
\* list: <<"translate", tx, ty>> or <<"scale", sx, sy>>.
svg_transform_into_euclid_transform(t) ==
    IF t[1] = "translate" THEN Translation(t[2], t[3]) ELSE Scale(t[2], t[3])

\* get_viewport_transform: the transform that places the view box inside the
\* viewport of the given size and position.  The alignment is Some("none")
\* (each axis scaled on its own) or absent, which means xMidYMid meet: one
\* scale for both axes, the smaller, and the box centred.
get_viewport_transform(view_box, preserve_aspect_ratio, viewport_size, viewport_pos) ==
    LET sx0 == RDiv(viewport_size[1], view_box[3])
        sy0 == RDiv(viewport_size[2], view_box[4])
        uniform == preserve_aspect_ratio # Some("none")
        sx == IF uniform THEN RMin(sx0, sy0) ELSE sx0
        sy == IF uniform THEN RMin(sx0, sy0) ELSE sy0
        tx0 == RSub(UnwrapOr(viewport_pos[1], Zero), RMul(view_box[1], sx))
        ty0 == RSub(UnwrapOr(viewport_pos[2], Zero), RMul(view_box[2], sy))
        tx == IF uniform
              THEN RAdd(tx0, RDiv(RSub(viewport_size[1], RMul(view_box[3], sx)), R(2)))
              ELSE tx0
        ty == IF uniform
              THEN RAdd(ty0, RDiv(RSub(viewport_size[2], RMul(view_box[4], sy)), R(2)))
              ELSE ty0
    IN  Then(Scale(sx, sy), Translation(tx, ty))

\* node_name: the label of a node, its tag name followed by its id if any.
node_name(n) == <<doc[n].tag, doc[n].id>>

(***************************************************************************)
(* visit_enter, the coordinate resolver: the flattened transform of a node *)
(* and the viewport size it establishes.                                   *)
(***************************************************************************)
RECURSIVE FoldTransformsAppending(_, _)
\* FoldTransforms with the operands of then exchanged: acc.then(&t).
FoldTransformsAppending(ts, acc) ==
    IF ts = <<>>
    THEN acc
    ELSE FoldTransformsAppending(Tail(ts),
                                 Then(acc, svg_transform_into_euclid_transform(Head(ts))))

RECURSIVE FoldTransforms(_, _)
\* .fold(Transform2D::identity(), |acc, t| t.then(&acc)) over the list ts
FoldTransforms(ts, acc) ==
    IF ts = <<>>
    THEN acc
    ELSE FoldTransforms(Tail(ts), Then(svg_transform_into_euclid_transform(Head(ts)), acc))

\* The node's own transform list, folded.
OwnTransform(n) ==
    IF IsSome(doc[n].transform)
    THEN FoldTransforms(Unwrap(doc[n].transform), Identity)
    ELSE Identity

\* The viewBox attribute, kept only if its width and height are positive.
ViewBoxOf(n) ==
    IF IsSome(doc[n].viewBox)
       /\ ~RLe(Unwrap(doc[n].viewBox)[3], Zero)
       /\ ~RLe(Unwrap(doc[n].viewBox)[4], Zero)
    THEN doc[n].viewBox
    ELSE None

\* warn!("Invalid viewBox")
ViewBoxRejected(n) == IsSome(doc[n].viewBox) /\ IsNone(ViewBoxOf(n))

\* SvgSizeAttrs with the attribute taking precedence over the override.
SvgSizeAttrsAttributeFirst(n, opts) ==
    << OrElse(length_attr_to_user_units(n, "width"), opts.dimensions[1]),
       OrElse(length_attr_to_user_units(n, "height"), opts.dimensions[2]) >>

\* [width, height] of an svg element after the dimension overrides.
SvgSizeAttrs(n, opts) ==
    << OrElse(opts.dimensions[1], length_attr_to_user_units(n, "width")),
       OrElse(opts.dimensions[2], length_attr_to_user_units(n, "height")) >>

\* intrinsic_aspect_ratio
SvgIntrinsicRatio(n, opts) ==
    LET vb == ViewBoxOf(n)
        sz == SvgSizeAttrs(n, opts)
    IN  IF IsSome(vb) THEN Some(RDiv(Unwrap(vb)[3], Unwrap(vb)[4]))
        ELSE IF IsSome(sz[1]) /\ IsSome(sz[2]) THEN Some(RDiv(Unwrap(sz[1]), Unwrap(sz[2])))
        ELSE None

\* The arm of the viewport_size match an svg element takes, 1 to 7 in the
\* order of the source; arm 7 is the one marked unreachable.
SvgViewportArm(n, opts) ==
    LET vb == ViewBoxOf(n)
        sz == SvgSizeAttrs(n, opts)
        ratio == IF IsSome(sz[1]) /\ IsSome(sz[2]) THEN None ELSE SvgIntrinsicRatio(n, opts)
    IN  IF IsSome(sz[1]) /\ IsSome(sz[2]) THEN 1
        ELSE IF IsSome(sz[1]) /\ IsSome(ratio) THEN 2
        ELSE IF IsSome(sz[2]) /\ IsSome(ratio) THEN 3
        ELSE IF IsNone(sz[1]) /\ IsNone(sz[2]) /\ IsSome(vb) THEN 4
        ELSE IF IsNone(ratio) /\ IsNone(vb) /\ (IsSome(sz[1]) \/ IsSome(sz[2])) THEN 5
        ELSE IF IsNone(sz[1]) /\ IsNone(sz[2]) /\ IsNone(vb) THEN 6
        ELSE 7

\* viewport_size of an svg element
SvgViewportSize(n, opts) ==
    LET vb == ViewBoxOf(n)
        sz == SvgSizeAttrs(n, opts)
        ratio == SvgIntrinsicRatio(n, opts)
        arm == SvgViewportArm(n, opts)
    IN  CASE arm = 1 -> <<Unwrap(sz[1]), Unwrap(sz[2])>>
          [] arm = 2 -> <<Unwrap(sz[1]), RDiv(Unwrap(sz[1]), Unwrap(ratio))>>
          [] arm = 3 -> <<RMul(Unwrap(sz[2]), Unwrap(ratio)), Unwrap(sz[2])>>
          [] arm = 4 -> <<Unwrap(vb)[3], Unwrap(vb)[4]>>
          [] arm = 5 -> <<Unwrap(OrElse(sz[1], sz[2])), Unwrap(OrElse(sz[1], sz[2]))>>
          [] arm = 6 -> <<One, One>>

\* viewport_pos
ViewportPos(n) ==
    <<length_attr_to_user_units(n, "x"), length_attr_to_user_units(n, "y")>>

\* SymbolViewportSize with the view box taking precedence over the width
\* and height attributes.
SymbolViewportSizeBoxFirst(n, dims) ==
    LET w == length_attr_to_user_units(n, "width")
        h == length_attr_to_user_units(n, "height")
        vb == ViewBoxOf(n)
    IN  IF IsSome(vb) THEN <<Unwrap(vb)[3], Unwrap(vb)[4]>>
        ELSE IF IsSome(w) /\ IsSome(h) THEN <<Unwrap(w), Unwrap(h)>>
        ELSE IF dims # <<>> THEN dims[Len(dims)]
        ELSE <<One, One>>

\* viewport_size of a symbol element, given the viewport-dimension stack
SymbolViewportSize(n, dims) ==
    LET w == length_attr_to_user_units(n, "width")
        h == length_attr_to_user_units(n, "height")
        vb == ViewBoxOf(n)
    IN  IF IsSome(w) /\ IsSome(h) THEN <<Unwrap(w), Unwrap(h)>>
        ELSE IF IsSome(vb) THEN <<Unwrap(vb)[3], Unwrap(vb)[4]>>
        ELSE IF dims # <<>> THEN dims[Len(dims)]
        ELSE <<One, One>>

\* The local viewport_size of visit_enter: Some for an svg or a symbol
\* element, with the node it was resolved for.
ViewportSizeResolved(n, opts, dims) ==
    IF doc[n].tag = SVG_TAG_NAME
    THEN Some([node |-> n, viewport_size |-> SvgViewportSize(n, opts)])
    ELSE IF doc[n].tag = SYMBOL_TAG_NAME
    THEN Some([node |-> n, viewport_size |-> SymbolViewportSize(n, dims)])
    ELSE None

\* What the node pushes onto viewport_dim_stack: Some for an svg or a symbol
\* element, None for every other node.
ViewportDimPushed(n, opts, dims) ==
    IF doc[n].tag = SVG_TAG_NAME
    THEN Some(IF IsSome(ViewBoxOf(n))
              THEN <<Unwrap(ViewBoxOf(n))[3], Unwrap(ViewBoxOf(n))[4]>>
              ELSE SvgViewportSize(n, opts))
    ELSE IF doc[n].tag = USE_TAG_NAME THEN None
    ELSE IF doc[n].tag = SYMBOL_TAG_NAME THEN Some(SymbolViewportSize(n, dims))
    ELSE None

\* SvgFlip with the sign of the translation lost.
SvgFlipUp(n, opts) ==
    Translation(Zero, RAdd(SvgViewportSize(n, opts)[2], UnwrapOr(ViewportPos(n)[2], Zero)))

\* The translation an svg element appends: part 2 of the conversion from SVG
\* to g-code coordinates.
SvgFlip(n, opts) ==
    Translation(Zero, RNeg(RAdd(SvgViewportSize(n, opts)[2], UnwrapOr(ViewportPos(n)[2], Zero))))

\* flattened_transform, as pushed onto the sink's transform stack
FlattenedTransform(n, opts, dims) ==
    LET own == OwnTransform(n)
        vb == ViewBoxOf(n)
    IN  IF doc[n].tag = SVG_TAG_NAME
        THEN Then(IF IsSome(vb)
                  THEN Then(own, get_viewport_transform(Unwrap(vb), doc[n].par,
                                     SvgViewportSize(n, opts), ViewportPos(n)))
                  ELSE own,
                  SvgFlip(n, opts))
        ELSE IF doc[n].tag = USE_TAG_NAME
        THEN Then(own, Translation(UnwrapOr(length_attr_to_user_units(n, "x"), Zero),
                                   UnwrapOr(length_attr_to_user_units(n, "y"), Zero)))
        ELSE IF doc[n].tag = SYMBOL_TAG_NAME
        THEN IF IsSome(vb)
             THEN Then(own, get_viewport_transform(Unwrap(vb), doc[n].par,
                                SymbolViewportSize(n, dims), <<None, None>>))
             ELSE own
        ELSE own

(***************************************************************************)
(* visit_enter, shape lowering: the path segments handed to apply_path.    *)
(* All segments are absolute; an arc has x_axis_rotation 0, large_arc      *)
(* false and sweep true.                                                   *)
(***************************************************************************)
MoveTo(x, y) == <<"MoveTo", x, y>>
LineTo(x, y) == <<"LineTo", x, y>>
HorizontalLineTo(x) == <<"HorizontalLineTo", x>>
VerticalLineTo(y) == <<"VerticalLineTo", y>>
EllipticalArc(rx, ry, x, y) == <<"EllipticalArc", rx, ry, x, y>>
ClosePath == <<"ClosePath">>

IsArc(p) == p[1] = "EllipticalArc"

\* RectPath with the move to the corner (x, y) itself.
RectPathFromCorner(x, y, width, height, rx, ry) ==
    SelectSeq(
        << <<"MoveTo", x, y>>,
           <<"HorizontalLineTo", RSub(RAdd(x, width), rx)>>,
           <<"EllipticalArc", rx, ry, RAdd(x, width), RAdd(y, ry)>>,
           <<"VerticalLineTo", RSub(RAdd(y, height), ry)>>,
           <<"EllipticalArc", rx, ry, RSub(RAdd(x, width), rx), RAdd(y, height)>>,
           <<"HorizontalLineTo", RAdd(x, rx)>>,
           <<"EllipticalArc", rx, ry, x, RSub(RAdd(y, height), ry)>>,
           <<"VerticalLineTo", RAdd(y, ry)>>,
           <<"EllipticalArc", rx, ry, RAdd(x, rx), y>>,
           <<"ClosePath">> >>,
        LAMBDA p : (RLt(Zero, rx) /\ RLt(Zero, ry)) \/ p[1] # "EllipticalArc")

\* RectPath without the filter on has_radius: the arcs are always there.
RectPathUnfiltered(x, y, width, height, rx, ry) ==
    << <<"MoveTo", RAdd(x, rx), y>>,
       <<"HorizontalLineTo", RSub(RAdd(x, width), rx)>>,
       <<"EllipticalArc", rx, ry, RAdd(x, width), RAdd(y, ry)>>,
       <<"VerticalLineTo", RSub(RAdd(y, height), ry)>>,
       <<"EllipticalArc", rx, ry, RSub(RAdd(x, width), rx), RAdd(y, height)>>,
       <<"HorizontalLineTo", RAdd(x, rx)>>,
       <<"EllipticalArc", rx, ry, x, RSub(RAdd(y, height), ry)>>,
       <<"VerticalLineTo", RAdd(y, ry)>>,
       <<"EllipticalArc", rx, ry, RAdd(x, rx), y>>,
       <<"ClosePath">> >>

\* let has_radius = rx > 0. && ry > 0.;
HasRadius(rx, ry) == RLt(Zero, rx) /\ RLt(Zero, ry)

\* The segments of a rect with the given width and height.
RectPath(x, y, width, height, rx, ry) ==
    SelectSeq(
        << MoveTo(RAdd(x, rx), y),
           HorizontalLineTo(RSub(RAdd(x, width), rx)),
           EllipticalArc(rx, ry, RAdd(x, width), RAdd(y, ry)),
           VerticalLineTo(RSub(RAdd(y, height), ry)),
           EllipticalArc(rx, ry, RSub(RAdd(x, width), rx), RAdd(y, height)),
           HorizontalLineTo(RAdd(x, rx)),
           EllipticalArc(rx, ry, x, RSub(RAdd(y, height), ry)),
           VerticalLineTo(RAdd(y, ry)),
           EllipticalArc(rx, ry, RAdd(x, rx), y),
           ClosePath >>,
        LAMBDA p : HasRadius(rx, ry) \/ ~IsArc(p))

\* The rect arm: Some(segments) when apply_path is called, None when the
\* node is reported as an invalid rectangle.
RectArm(n) ==
    LET x == UnwrapOr(length_attr_to_user_units(n, "x"), Zero)
        y == UnwrapOr(length_attr_to_user_units(n, "y"), Zero)
        width == length_attr_to_user_units(n, "width")
        height == length_attr_to_user_units(n, "height")
        rx == UnwrapOr(length_attr_to_user_units(n, "rx"), Zero)
        ry == UnwrapOr(length_attr_to_user_units(n, "ry"), Zero)
    IN  IF IsSome(width) /\ IsSome(height)
        THEN Some(RectPath(x, y, Unwrap(width), Unwrap(height), rx, ry))
        ELSE None

RECURSIVE ParsedSegments(_)
\* The segments PathParser yields before the text stops parsing.
ParsedSegments(d) ==
    IF d = <<>> THEN <<>>
    ELSE IF IsParseError(Head(d)) THEN <<>>
    ELSE <<Head(d)>> \o ParsedSegments(Tail(d))

\* PathParser yields an error: segment.expect("could not parse path segment")
\* panics once apply_path has consumed the segments before it.
PathDataFails(d) == \E i \in DOMAIN d : IsParseError(d[i])

\* The path arm: Some(the segments apply_path consumes) with a d attribute,
\* None without.
PathArm(n) ==
    IF IsSome(doc[n].d) THEN Some(ParsedSegments(Unwrap(doc[n].d))) ELSE None

\* The segments of a polyline or polygon with the given points: peek() looks
\* at the first point without consuming it, and the map over the same parser
\* then yields every point.
PolyPath(name, points) ==
    (IF points # <<>> THEN <<MoveTo(points[1][1], points[1][2])>> ELSE <<>>)
    \o [i \in 1..Len(points) |-> LineTo(points[i][1], points[i][2])]
    \o (IF name = POLYGON_TAG_NAME THEN <<ClosePath>> ELSE <<>>)

\* The polyline/polygon arm
PolyArm(n) ==
    IF IsSome(doc[n].points)
    THEN Some(PolyPath(doc[n].tag, Unwrap(doc[n].points)))
    ELSE None

\* The segments of a circle or ellipse with positive radii.
EllipsePath(cx, cy, rx, ry) ==
    << MoveTo(RAdd(cx, rx), cy),
       EllipticalArc(rx, ry, cx, RAdd(cy, ry)),
       EllipticalArc(rx, ry, RSub(cx, rx), cy),
       EllipticalArc(rx, ry, cx, RSub(cy, ry)),
       EllipticalArc(rx, ry, RAdd(cx, rx), cy),
       ClosePath >>

\* The circle/ellipse arm
EllipseArm(n) ==
    LET cx == UnwrapOr(length_attr_to_user_units(n, "cx"), Zero)
        cy == UnwrapOr(length_attr_to_user_units(n, "cy"), Zero)
        r == UnwrapOr(length_attr_to_user_units(n, "r"), Zero)
        rx == UnwrapOr(length_attr_to_user_units(n, "rx"), r)
        ry == UnwrapOr(length_attr_to_user_units(n, "ry"), r)
    IN  IF RLt(Zero, rx) /\ RLt(Zero, ry)
        THEN Some(EllipsePath(cx, cy, rx, ry))
        ELSE None

\* The line arm
LineArm(n) ==
    LET x1 == length_attr_to_user_units(n, "x1")
        y1 == length_attr_to_user_units(n, "y1")
        x2 == length_attr_to_user_units(n, "x2")
        y2 == length_attr_to_user_units(n, "y2")
    IN  IF IsSome(x1) /\ IsSome(y1) /\ IsSome(x2) /\ IsSome(y2)
        THEN Some(<<MoveTo(Unwrap(x1), Unwrap(y1)), LineTo(Unwrap(x2), Unwrap(y2))>>)
        ELSE None

\* The tags whose arm of the shape match can call apply_path.
PrimitiveTags ==
    { PATH_TAG_NAME, POLYLINE_TAG_NAME, POLYGON_TAG_NAME, RECT_TAG_NAME,
      CIRCLE_TAG_NAME, ELLIPSE_TAG_NAME, LINE_TAG_NAME }

\* The tags of the no-op arm.
ContainerTags == {SVG_TAG_NAME, GROUP_TAG_NAME, USE_TAG_NAME, SYMBOL_TAG_NAME}

\* The shape match: Some(segments) when the node's arm calls apply_path.
ShapeOf(n) ==
    CASE doc[n].tag = PATH_TAG_NAME -> PathArm(n)
      [] doc[n].tag \in {POLYLINE_TAG_NAME, POLYGON_TAG_NAME} -> PolyArm(n)
      [] doc[n].tag = RECT_TAG_NAME -> RectArm(n)
      [] doc[n].tag \in {CIRCLE_TAG_NAME, ELLIPSE_TAG_NAME} -> EllipseArm(n)
      [] doc[n].tag = LINE_TAG_NAME -> LineArm(n)
      [] OTHER -> None

(***************************************************************************)
(* visit_enter, the panics: the expect calls on what the parsers yield and *)
(* the arm marked unreachable.  A panic ends the conversion.               *)
(***************************************************************************)
\* token.expect("could not parse a transform in a list of transforms")
TransformFails(n) ==
    /\ IsSome(doc[n].transform)
    /\ \E i \in DOMAIN Unwrap(doc[n].transform) : IsParseError(Unwrap(doc[n].transform)[i])

\* ViewBox::from_str yields an error
ViewBoxFails(n) == IsSome(doc[n].viewBox) /\ Len(Unwrap(doc[n].viewBox)) # 4

\* AspectRatio::from_str yields an error
AspectRatioFails(n) == doc[n].par = Some(Malformed)

\* Panic with the viewBox attribute parsed on every element.
PanicOnAnyViewBox(n, opts) ==
    IF TransformFails(n)
    THEN Some("could not parse a transform in a list of transforms")
    ELSE IF ViewBoxFails(n) THEN Some("could not parse viewBox")
    ELSE IF doc[n].tag \in {SVG_TAG_NAME, SYMBOL_TAG_NAME} /\ AspectRatioFails(n)
    THEN Some("could not parse preserveAspectRatio")
    ELSE IF doc[n].tag = PATH_TAG_NAME /\ IsSome(doc[n].d) /\ PathDataFails(Unwrap(doc[n].d))
    THEN Some("could not parse path segment")
    ELSE None

\* The panic of visit_enter on node n, if any: Some(its message), the first
\* in the order of the source.
Panic(n, opts) ==
    IF TransformFails(n)
    THEN Some("could not parse a transform in a list of transforms")
    ELSE IF doc[n].tag = SVG_TAG_NAME
    THEN IF ViewBoxFails(n) THEN Some("could not parse viewBox")
         ELSE IF AspectRatioFails(n) THEN Some("could not parse preserveAspectRatio")
         ELSE IF SvgViewportArm(n, opts) = 7 THEN Some("intrinsic ratio necessarily exists")
         ELSE None
    ELSE IF doc[n].tag = USE_TAG_NAME THEN None
    ELSE IF doc[n].tag = SYMBOL_TAG_NAME
    THEN IF ViewBoxFails(n) THEN Some("could not parse viewBox on symbol")
         ELSE IF AspectRatioFails(n) THEN Some("could not parse preserveAspectRatio")
         ELSE None
    ELSE IF doc[n].tag = PATH_TAG_NAME /\ IsSome(doc[n].d) /\ PathDataFails(Unwrap(doc[n].d))
    THEN Some("could not parse path segment")
    ELSE None

\* The panic happens in the shape match, after push_transform.
PanicsInShapeMatch(n, opts) == Panic(n, opts) = Some("could not parse path segment")

(***************************************************************************)
(* What visit_enter and visit_exit do to the sink and to the visitor, as   *)
(* the sequence of events in the order of the source.                      *)
(***************************************************************************)
Ev(ev, n, what) == [ev |-> ev, node |-> n, what |-> what]

When(cond, e) == IF cond THEN <<e>> ELSE <<>>

\* EnterEvents with the transform pushed after the shape match.
EnterEventsDrawFirst(n) ==
    <<Ev("enter", n, "")>>
    \o When(doc[n].tag = CLIP_PATH_TAG_NAME, Ev("warn", n, "clip paths are not supported"))
    \o When(IsSome(doc[n].origin), Ev("warn", n, "transform-origin not supported yet"))
    \o When(doc[n].tag \in {SVG_TAG_NAME, SYMBOL_TAG_NAME} /\ ViewBoxRejected(n),
            Ev("warn", n, "invalid viewBox"))
    \o When(doc[n].tag \in {SVG_TAG_NAME, SYMBOL_TAG_NAME}, Ev("push_dim", n, ""))
    \o When(doc[n].tag \notin {SVG_TAG_NAME, USE_TAG_NAME, SYMBOL_TAG_NAME}
              /\ IsSome(doc[n].viewBox),
            Ev("warn", n, "view box is not supported"))
    \o When(IsSome(ShapeOf(n)), Ev("comment", n, ""))
    \o When(IsSome(ShapeOf(n)), Ev("draw", n, ""))
    \o When(doc[n].tag \in PrimitiveTags /\ IsNone(ShapeOf(n)), Ev("warn", n, "invalid node"))
    \o When(doc[n].tag \notin PrimitiveTags \cup ContainerTags, Ev("debug", n, "unknown node"))
    \o <<Ev("push_transform", n, ""), Ev("push_name", n, "")>>

EnterEvents(n) ==
    <<Ev("enter", n, "")>>
    \o When(doc[n].tag = CLIP_PATH_TAG_NAME, Ev("warn", n, "clip paths are not supported"))
    \o When(IsSome(doc[n].origin), Ev("warn", n, "transform-origin not supported yet"))
    \o When(doc[n].tag \in {SVG_TAG_NAME, SYMBOL_TAG_NAME} /\ ViewBoxRejected(n),
            Ev("warn", n, "invalid viewBox"))
    \o When(doc[n].tag \in {SVG_TAG_NAME, SYMBOL_TAG_NAME}, Ev("push_dim", n, ""))
    \o When(doc[n].tag \notin {SVG_TAG_NAME, USE_TAG_NAME, SYMBOL_TAG_NAME}
              /\ IsSome(doc[n].viewBox),
            Ev("warn", n, "view box is not supported"))
    \o <<Ev("push_transform", n, "")>>
    \o When(IsSome(ShapeOf(n)), Ev("comment", n, ""))
    \o When(IsSome(ShapeOf(n)), Ev("draw", n, ""))
    \o When(doc[n].tag \in PrimitiveTags /\ IsNone(ShapeOf(n)), Ev("warn", n, "invalid node"))
    \o When(doc[n].tag \notin PrimitiveTags \cup ContainerTags, Ev("debug", n, "unknown node"))
    \o <<Ev("push_name", n, "")>>

\* The events of a call of visit_enter that panics, up to the panic.
PanicEvents(n) ==
    <<Ev("enter", n, "")>>
    \o When(doc[n].tag = CLIP_PATH_TAG_NAME, Ev("warn", n, "clip paths are not supported"))
    \o When(IsSome(doc[n].origin), Ev("warn", n, "transform-origin not supported yet"))
    \o When(/\ ~TransformFails(n)
            /\ doc[n].tag \in {SVG_TAG_NAME, SYMBOL_TAG_NAME}
            /\ ~ViewBoxFails(n)
            /\ ViewBoxRejected(n),
            Ev("warn", n, "invalid viewBox"))
    \o (IF PanicsInShapeMatch(n, options)
        THEN When(IsSome(doc[n].viewBox), Ev("warn", n, "view box is not supported"))
             \o <<Ev("push_transform", n, ""), Ev("comment", n, ""), Ev("draw", n, "")>>
        ELSE <<>>)
    \o <<Ev("panic", n, Unwrap(Panic(n, options)))>>

ExitEvents(n) ==
    <<Ev("exit", n, ""), Ev("pop_transform", n, ""), Ev("pop_name", n, "")>>
    \o When(doc[n].tag \in {SVG_TAG_NAME, SYMBOL_TAG_NAME}, Ev("pop_dim", n, ""))

(***************************************************************************)
(* The documents and options the walk is checked on.                       *)
(***************************************************************************)
IdChars == <<"a", "b", "c", "d", "e", "f", "g", "h">>

\* The id attribute given to node i of a generated document.
IdOf(i) == <<IdChars[i]>>

\* href="#<id of node i>"
HrefTo(i) == <<"#">> \o IdOf(i)

\* An href whose fragment is no id of the document.
HrefMissing == <<"#", "z">>

\* The kinds of node of a generated document of n nodes: groups (shown or
\* hidden), the containers that are not rendered directly, a rect, a text
\* node, and use elements referencing nothing or any node of the document.
StructKinds(n) ==
    {[tag |-> GROUP_TAG_NAME, hidden |-> h, ref |-> None] : h \in BOOLEAN}
    \cup {[tag |-> t, hidden |-> FALSE, ref |-> None] :
            t \in {DEFS_TAG_NAME, SYMBOL_TAG_NAME, RECT_TAG_NAME, TEXT_NODE}}
    \cup {[tag |-> USE_TAG_NAME, hidden |-> FALSE, ref |-> r] :
            r \in {Some(HrefMissing)} \cup {Some(HrefTo(k)) : k \in 1..n}}

\* The root element of a generated document.
RootKinds ==
    {[tag |-> t, hidden |-> FALSE, ref |-> None] : t \in {SVG_TAG_NAME, GROUP_TAG_NAME}}

\* The parent vectors of the trees of n nodes numbered in document order:
\* node 1 is the only child of the document root, and the parent of node i
\* is node i-1 or one of its ancestors.
RECURSIVE AncestorsIn(_, _)
AncestorsIn(par, i) == IF i = 0 THEN {} ELSE {i} \cup AncestorsIn(par, par[i])

TreeShapes(n) ==
    {par \in [1..n -> 0..(n - 1)] :
        /\ par[1] = 0
        /\ \A i \in 2..n : par[i] \in AncestorsIn(par, i - 1) }

GenNode(i, kind, parent) ==
    IF kind.tag = TEXT_NODE
    THEN Node(TEXT_NODE, parent)
    ELSE [ Node(kind.tag, parent) EXCEPT
             !.id = Some(IdOf(i)),
             !.style = IF kind.hidden THEN Some(<<HIDDEN>>) ELSE None,
             !.href = kind.ref,
             !.len = IF kind.tag = RECT_TAG_NAME
                     THEN [NoLengths EXCEPT !["width"] = Some(One), !["height"] = Some(One)]
                     ELSE NoLengths ]

\* A text node has no children.
NoChildOfText(n, par, kinds) ==
    \A i \in 2..n : par[i] >= 2 => kinds[par[i]].tag # TEXT_NODE

\* doc is a generated document: a tree of at most MaxNodes nodes, each of one
\* of the kinds.
IsGenDoc ==
    \E n \in 1..MaxNodes : \E par \in TreeShapes(n) : \E root \in RootKinds :
        \E kinds \in [2..n -> StructKinds(n)] :
            /\ NoChildOfText(n, par, kinds)
            /\ doc = [i \in 1..n |-> GenNode(i, IF i = 1 THEN root ELSE kinds[i], par[i])]

NoOptions == [dimensions |-> <<None, None>>]

\* The values drawn for a length attribute that may be absent, zero or
\* negative.
AnyLengths == {None} \cup {Some(R(v)) : v \in -1..MaxLen}

\* The values drawn for a length attribute that is absent or positive.
PositiveLengths == {None} \cup {Some(R(v)) : v \in 1..MaxLen}

\* An svg element with one child.
RootWith(child) == <<Node(SVG_TAG_NAME, 0), child>>

\* doc is <svg><rect .../></svg>, the rect with any of its length attributes.
IsRectDoc ==
    \E x \in {None, Some(R(MaxLen))} : \E y \in {None, Some(One)} :
    \E w \in PositiveLengths : \E h \in PositiveLengths :
    \E rx \in AnyLengths : \E ry \in AnyLengths :
        doc = RootWith([Node(RECT_TAG_NAME, 1) EXCEPT
                          !.len = [a \in LengthAttrs |->
                                     CASE a = "x" -> x [] a = "y" -> y
                                       [] a = "width" -> w [] a = "height" -> h
                                       [] a = "rx" -> rx [] a = "ry" -> ry
                                       [] OTHER -> None]])

\* The values drawn for a viewBox attribute: absent, or a box at the origin
\* or off it, its width and height zero (rejected) or positive.
ViewBoxes ==
    {None} \cup {Some(<<R(m), R(m), R(w), R(h)>>) : m \in {0, 1}, w \in 0..MaxLen, h \in 0..MaxLen}

\* doc is <svg ...><rect width="1" height="1"/></svg> and options holds any
\* dimension overrides.
IsSvgDoc ==
    \E vb \in ViewBoxes : \E w \in PositiveLengths : \E h \in PositiveLengths :
    \E y \in {None, Some(One)} : \E par \in {None, Some("none")} :
    \E ow \in {None, Some(R(MaxLen))} : \E oh \in {None, Some(R(MaxLen))} :
        /\ doc = << [Node(SVG_TAG_NAME, 0) EXCEPT
                       !.viewBox = vb, !.par = par,
                       !.len = [NoLengths EXCEPT !["width"] = w, !["height"] = h, !["y"] = y]],
                    [Node(RECT_TAG_NAME, 1) EXCEPT
                       !.len = [NoLengths EXCEPT !["width"] = Some(One), !["height"] = Some(One)]] >>
        /\ options = [dimensions |-> <<ow, oh>>]

\* The points of a points attribute of k points.
PointsOf(k) == [i \in 1..k |-> <<R(i), R((i * i) % 3)>>]

\* The values drawn for a points attribute: absent, or up to MaxPoints points.
PointLists == {None} \cup {Some(PointsOf(k)) : k \in 0..MaxPoints}

\* The segments of a d attribute of k segments.
SegmentsOf(k) ==
    [i \in 1..k |-> IF i = 1 THEN MoveTo(Zero, Zero)
                    ELSE IF i = k THEN ClosePath
                    ELSE LineTo(R(i), One)]

\* The values drawn for a d attribute: absent, or up to MaxPoints segments,
\* after which the text ends or stops parsing.
PathData ==
    {None} \cup {Some(SegmentsOf(k)) : k \in 0..MaxPoints}
           \cup {Some(Append(SegmentsOf(k), ParseError)) : k \in 0..MaxPoints}

\* A node with the given length attributes, the others absent.
WithLengths(node, lens) ==
    [node EXCEPT !.len = [a \in LengthAttrs |-> IF a \in DOMAIN lens THEN lens[a] ELSE None]]

\* doc is <svg><P .../></svg>, P a polyline, polygon, circle, ellipse, line
\* or path with any of its attributes.
IsShapeDoc ==
    \/ \E t \in {POLYLINE_TAG_NAME, POLYGON_TAG_NAME} : \E pts \in PointLists :
          doc = RootWith([Node(t, 1) EXCEPT !.points = pts])
    \/ \E t \in {CIRCLE_TAG_NAME, ELLIPSE_TAG_NAME} :
       \E cx \in {None, Some(One)} : \E r \in {None, Some(Zero), Some(R(MaxLen))} :
       \E rx \in {None, Some(R(-1)), Some(One)} : \E ry \in {None, Some(One)} :
          doc = RootWith(WithLengths(Node(t, 1),
                           [cx |-> cx, cy |-> Some(R(MaxLen)), r |-> r, rx |-> rx, ry |-> ry]))
    \/ \E x1 \in {None, Some(Zero)} : \E y1 \in {None, Some(One)} :
       \E x2 \in {None, Some(R(MaxLen))} : \E y2 \in {None, Some(R(-1))} :
          doc = RootWith(WithLengths(Node(LINE_TAG_NAME, 1),
                           [x1 |-> x1, y1 |-> y1, x2 |-> x2, y2 |-> y2]))
    \/ \E d \in PathData :
          doc = RootWith([Node(PATH_TAG_NAME, 1) EXCEPT !.d = d])

\* The values drawn for the viewBox attribute of a symbol: absent, three
\* numbers only, a box of no width, or a box.
SymbolBoxes ==
    { None, Some(<<Zero, Zero, One>>), Some(<<Zero, Zero, Zero, One>>),
      Some(<<Zero, One, R(MaxLen), One>>) }

\* doc is <R><symbol id="b" ...><rect/></symbol><use href="#b"/></R>, the
\* root R an svg element of width and height 3 or a group.
IsSymbolDoc ==
    \E root \in { WithLengths(Node(SVG_TAG_NAME, 0), [width |-> Some(R(3)), height |-> Some(R(3))]),
                   Node(GROUP_TAG_NAME, 0) } :
    \E w \in PositiveLengths : \E h \in PositiveLengths : \E vb \in SymbolBoxes :
    \E par \in {None, Some("none"), Some(Malformed)} :
        doc = << root,
                 [WithLengths(Node(SYMBOL_TAG_NAME, 1), [width |-> w, height |-> h])
                    EXCEPT !.id = Some(<<"b">>), !.viewBox = vb, !.par = par],
                 [Node(RECT_TAG_NAME, 2) EXCEPT
                    !.len = [NoLengths EXCEPT !["width"] = Some(One), !["height"] = Some(One)]],
                 [Node(USE_TAG_NAME, 1) EXCEPT !.href = Some(<<"#", "b">>)] >>

\* The functions a transform attribute lists.
TransformFns ==
    { <<"translate", R(1), R(MaxLen)>>, <<"scale", R(2), R(3)>>, <<"scale", R(-1), R(1)>> }

\* The transform lists of k functions.
TransformLists(k) == [1..k -> TransformFns]

\* doc is <svg><g transform="..."><rect/></g></svg>, the list of up to
\* MaxFns functions.
IsTransformDoc ==
    \E k \in 0..MaxFns : \E ts \in TransformLists(k) :
        doc = << Node(SVG_TAG_NAME, 0),
                 [Node(GROUP_TAG_NAME, 1) EXCEPT !.transform = Some(ts)],
                 [Node(RECT_TAG_NAME, 2) EXCEPT
                    !.len = [NoLengths EXCEPT !["width"] = Some(One), !["height"] = Some(One)]] >>

\* A tag the shape match does not know.
UNKNOWN_TAG_NAME == "text"

\* doc is <svg><T viewBox=.. preserveAspectRatio=.. transform=.. transform-origin=..>
\* <rect/></T><rect/></svg>, T any kind of element and each attribute absent,
\* well-formed or malformed.
IsAttrDoc ==
    \E t \in { GROUP_TAG_NAME, USE_TAG_NAME, SVG_TAG_NAME, RECT_TAG_NAME, PATH_TAG_NAME,
                CLIP_PATH_TAG_NAME, UNKNOWN_TAG_NAME } :
    \E vb \in { None, Some(<<Zero, Zero, One>>), Some(<<Zero, Zero, Zero, One>>),
                 Some(<<Zero, Zero, R(MaxLen), One>>) } :
    \E par \in {None, Some(Malformed)} :
    \E tr \in { None, Some(<< <<"translate", One, One>> >>),
                 Some(<< <<"translate", One, One>>, ParseError >>) } :
    \E origin \in {None, Some(<<Zero, Zero>>)} :
        doc = << Node(SVG_TAG_NAME, 0),
                 [Node(t, 1) EXCEPT
                    !.viewBox = vb, !.par = par, !.transform = tr, !.origin = origin,
                    !.href = IF t = USE_TAG_NAME THEN Some(HrefMissing) ELSE None,
                    !.d = IF t = PATH_TAG_NAME THEN Some(SegmentsOf(2)) ELSE None,
                    !.len = IF t = RECT_TAG_NAME
                            THEN [NoLengths EXCEPT !["width"] = Some(One), !["height"] = Some(One)]
                            ELSE NoLengths],
                 [Node(RECT_TAG_NAME, 2) EXCEPT
                    !.len = [NoLengths EXCEPT !["width"] = Some(One), !["height"] = Some(One)]],
                 [Node(RECT_TAG_NAME, 1) EXCEPT
                    !.len = [NoLengths EXCEPT !["width"] = Some(One), !["height"] = Some(One)]] >>

\* Shorthands for the hand-written documents.
Plain(tag, parent) == Node(tag, parent)
WithId(node, c) == [node EXCEPT !.id = Some(<<c>>)]
Hide(node) == [node EXCEPT !.style = Some(<<"fill:red", HIDDEN>>)]
UseOf(parent, href) == [Node(USE_TAG_NAME, parent) EXCEPT !.href = Some(href)]
UnitRect(parent) ==
    [Node(RECT_TAG_NAME, parent) EXCEPT
       !.len = [NoLengths EXCEPT !["width"] = Some(One), !["height"] = Some(One)]]

\* <svg><g style="fill:red;display:none"><rect id="c"/></g><use href="#c"/></svg>
HiddenRefDoc ==
    << Plain(SVG_TAG_NAME, 0), Hide(Plain(GROUP_TAG_NAME, 1)), WithId(UnitRect(2), "c"),
       UseOf(1, <<"#", "c">>) >>

\* <svg><defs><g id="c"><rect/></g></defs><use href="#c"/></svg>
DefsRefDoc ==
    << Plain(SVG_TAG_NAME, 0), Plain(DEFS_TAG_NAME, 1), WithId(Plain(GROUP_TAG_NAME, 2), "c"),
       UnitRect(3), UseOf(1, <<"#", "c">>) >>

\* <svg><symbol id="b"><rect/><marker><rect/></marker></symbol><use href="#b"/></svg>
SymbolRefDoc ==
    << Plain(SVG_TAG_NAME, 0), WithId(Plain(SYMBOL_TAG_NAME, 1), "b"), UnitRect(2),
       Plain(MARKER_TAG_NAME, 2), UnitRect(4), UseOf(1, <<"#", "b">>) >>

\* <svg><g id="b"><use href="#d"/></g><g id="d"><use href="#b"/></g></svg>
MutualDoc ==
    << Plain(SVG_TAG_NAME, 0), WithId(Plain(GROUP_TAG_NAME, 1), "b"), UseOf(2, <<"#", "d">>),
       WithId(Plain(GROUP_TAG_NAME, 1), "d"), UseOf(4, <<"#", "b">>) >>

\* <svg><g id="b"><defs><g id="d"><use href="#b"/></g></defs></g><use href="#d"/></svg>
AncestorRefDoc ==
    << Plain(SVG_TAG_NAME, 0), WithId(Plain(GROUP_TAG_NAME, 1), "b"), Plain(DEFS_TAG_NAME, 2),
       WithId(Plain(GROUP_TAG_NAME, 3), "d"), UseOf(4, <<"#", "b">>), UseOf(1, <<"#", "d">>) >>

\* <svg><svg><rect/></svg><marker><rect/></marker><clipPath/></svg>
NestedSvgDoc ==
    << Plain(SVG_TAG_NAME, 0), Plain(SVG_TAG_NAME, 1), UnitRect(2),
       Plain(MARKER_TAG_NAME, 1), UnitRect(4), Plain(CLIP_PATH_TAG_NAME, 1) >>

\* <svg><use xlink:href="#c"/><use href="c"/><rect id="c"/><g id="c"/></svg>
DuplicateIdDoc ==
    << Plain(SVG_TAG_NAME, 0),
       [Node(USE_TAG_NAME, 1) EXCEPT !.xhref = Some(<<"#", "c">>)],
       UseOf(1, <<"c">>), WithId(UnitRect(1), "c"), WithId(Plain(GROUP_TAG_NAME, 1), "c") >>

\* <svg><rect x="2" y="1" width="2" height="1"/><rect width="1"/></svg>
RectPairDoc ==
    << Plain(SVG_TAG_NAME, 0),
       [Node(RECT_TAG_NAME, 1) EXCEPT
          !.len = [NoLengths EXCEPT !["x"] = Some(R(2)), !["y"] = Some(R(1)),
                                    !["width"] = Some(R(2)), !["height"] = Some(R(1))]],
       [Node(RECT_TAG_NAME, 1) EXCEPT !.len = [NoLengths EXCEPT !["width"] = Some(One)]] >>

\* <svg viewBox="0 0 100 50"><rect/></svg>
ViewBoxDoc ==
    << [Node(SVG_TAG_NAME, 0) EXCEPT !.viewBox = Some(<<R(0), R(0), R(100), R(50)>>)],
       UnitRect(1) >>

\* <svg><g transform="translate(1 2) scale(2 2)" transform-origin="0 0" viewBox="0 0 1 1">
\*   <use x="1" y="2" href="#z"><rect/></use></g></svg>
TransformDoc ==
    << Plain(SVG_TAG_NAME, 0),
       [Node(GROUP_TAG_NAME, 1) EXCEPT
          !.transform = Some(<< <<"translate", R(1), R(2)>>, <<"scale", R(2), R(2)>> >>),
          !.origin = Some(<<Zero, Zero>>),
          !.viewBox = Some(<<Zero, Zero, One, One>>)],
       [UseOf(2, HrefMissing) EXCEPT
          !.len = [NoLengths EXCEPT !["x"] = Some(R(1)), !["y"] = Some(R(2))]],
       UnitRect(3) >>

\* <svg><symbol id="s"><use href="#u"/></symbol><use id="u" href="#s"><rect/></use></svg>
UseChainDoc ==
    << Plain(SVG_TAG_NAME, 0), WithId(Plain(SYMBOL_TAG_NAME, 1), "s"), UseOf(2, <<"#", "u">>),
       WithId(UseOf(1, <<"#", "s">>), "u"), UnitRect(4) >>

\* <svg><use href="#t"><rect id="c"/></use><g id="t"><use href="#c"/></g></svg>
ChildRefDoc ==
    << Plain(SVG_TAG_NAME, 0), UseOf(1, <<"#", "t">>), WithId(UnitRect(2), "c"),
       WithId(Plain(GROUP_TAG_NAME, 1), "t"), UseOf(4, <<"#", "c">>) >>

Gallery ==
    { HiddenRefDoc, DefsRefDoc, SymbolRefDoc, MutualDoc, AncestorRefDoc, NestedSvgDoc,
      DuplicateIdDoc, RectPairDoc, ViewBoxDoc, TransformDoc, UseChainDoc, ChildRefDoc }

(***************************************************************************)
(* The walk.  stack is the chain of open walker calls, the call of         *)
(* depth_first_visit on the document root (node 0) at the bottom; a call   *)
(* holds the calls it has still to make, in order, each on a node with     *)
(* the strict walker visit_node or the relaxed visit_use_referenced_node.  *)
(***************************************************************************)
Call(n, relaxed) == [node |-> n, relaxed |-> relaxed]

\* node.children().for_each(|child| visit_node(doc, child, visitor))
StrictChildren(n) == [i \in DOMAIN Children(n) |-> Call(Children(n)[i], FALSE)]

\* VisitNodeCalls with a guard against reference cycles: a use element that
\* references one of its own ancestors is not followed.
VisitNodeCallsGuarded(n) ==
    IF doc[n].tag = USE_TAG_NAME /\ IsSome(resolve_use_href(n))
    THEN IF IsAncestor(Unwrap(resolve_use_href(n)), n)
         THEN <<>>
         ELSE <<Call(Unwrap(resolve_use_href(n)), TRUE)>>
    ELSE StrictChildren(n)

\* VisitNodeCalls that walks the literal children of a use element after the
\* node it references.
VisitNodeCallsWithChildren(n) ==
    IF doc[n].tag = USE_TAG_NAME /\ IsSome(resolve_use_href(n))
    THEN <<Call(Unwrap(resolve_use_href(n)), TRUE)>> \o StrictChildren(n)
    ELSE StrictChildren(n)

\* The calls visit_node makes between visit_enter and visit_exit.
VisitNodeCalls(n) ==
    IF doc[n].tag = USE_TAG_NAME /\ IsSome(resolve_use_href(n))
    THEN <<Call(Unwrap(resolve_use_href(n)), TRUE)>>
    ELSE StrictChildren(n)

\* VisitUseReferencedNodeCalls that follows the href of a referenced use
\* element, as visit_node does.
VisitUseReferencedNodeCallsFollowing(n) == VisitNodeCalls(n)

\* The calls visit_use_referenced_node makes between visit_enter and visit_exit.
VisitUseReferencedNodeCalls(n) == StrictChildren(n)

\* UseReferencedNodeSkipped without the check of the style attribute.
UseReferencedNodeSkippedElementOnly(n) == ~IsElement(n)

\* The early returns of visit_use_referenced_node.
UseReferencedNodeSkipped(n) == IF IsElement(n) THEN IsHidden(n) ELSE TRUE

Frame(n, relaxed, todo) == [node |-> n, relaxed |-> relaxed, todo |-> todo]

Top == stack[Len(stack)]
NextCall == Top.todo[1]

\* The stack once the top call has made its next call.
Advanced == [stack EXCEPT ![Len(stack)].todo = Tail(@)]

Pop(s) == SubSeq(s, 1, Len(s) - 1)

Init ==
    /\ \/ IsGenDoc /\ options = NoOptions
       \/ IsRectDoc /\ options = NoOptions
       \/ IsSvgDoc
       \/ IsShapeDoc /\ options = NoOptions
       \/ IsSymbolDoc /\ options = NoOptions
       \/ IsTransformDoc /\ options = NoOptions
       \/ IsAttrDoc /\ options = NoOptions
       \/ doc \in Gallery /\ options = NoOptions
    /\ pc = "walk"
    /\ stack = <<Frame(0, FALSE, StrictChildren(0))>>
    /\ tstack = <<>>
    /\ nstack = <<>>
    /\ vstack = <<>>
    /\ drawn = <<>>
    /\ log = <<>>
    /\ resolved = <<>>

\* visit_enter that returns from the arm of an invalid primitive, before the
\* name is pushed.
visit_enter_early_return(n) ==
    /\ vstack' = vstack \o ViewportDimPushed(n, options, vstack)
    /\ tstack' = Append(tstack, FlattenedTransform(n, options, vstack))
    /\ drawn' = drawn \o When(IsSome(ShapeOf(n)),
                              [node |-> n, path |-> UnwrapOr(ShapeOf(n), <<>>),
                               depth |-> Len(tstack) + 1])
    /\ nstack' = IF doc[n].tag \in PrimitiveTags /\ IsNone(ShapeOf(n))
                 THEN nstack
                 ELSE Append(nstack, node_name(n))
    /\ resolved' = resolved \o ViewportSizeResolved(n, options, vstack)
    /\ log' = log \o EnterEvents(n)

visit_enter(n) ==
    /\ vstack' = vstack \o ViewportDimPushed(n, options, vstack)
    /\ tstack' = Append(tstack, FlattenedTransform(n, options, vstack))
    /\ drawn' = drawn \o When(IsSome(ShapeOf(n)),
                              [node |-> n, path |-> UnwrapOr(ShapeOf(n), <<>>),
                               depth |-> Len(tstack) + 1])
    /\ nstack' = Append(nstack, node_name(n))
    /\ resolved' = resolved \o ViewportSizeResolved(n, options, vstack)
    /\ log' = log \o EnterEvents(n)

\* A call of visit_enter that panics: what it did before the panic.  Only
\* the panic on path data comes after push_transform, and with it the sink
\* has consumed the segments before the error.
visit_enter_panics(n) ==
    /\ tstack' = IF PanicsInShapeMatch(n, options)
                 THEN Append(tstack, FlattenedTransform(n, options, vstack))
                 ELSE tstack
    /\ drawn' = IF PanicsInShapeMatch(n, options)
                THEN Append(drawn, [node |-> n, path |-> Unwrap(ShapeOf(n)),
                                    depth |-> Len(tstack) + 1])
                ELSE drawn
    /\ log' = log \o PanicEvents(n)
    /\ UNCHANGED <<nstack, vstack, resolved>>

\* visit_exit that pops the viewport dimension of an svg element only.
visit_exit_svg_only(n) ==
    /\ tstack' = Pop(tstack)
    /\ nstack' = Pop(nstack)
    /\ vstack' = IF doc[n].tag = SVG_TAG_NAME THEN Pop(vstack) ELSE vstack
    /\ drawn' = drawn
    /\ resolved' = resolved
    /\ log' = log \o ExitEvents(n)

visit_exit(n) ==
    /\ tstack' = Pop(tstack)
    /\ nstack' = Pop(nstack)
    /\ vstack' = IF doc[n].tag \in {SVG_TAG_NAME, SYMBOL_TAG_NAME} THEN Pop(vstack) ELSE vstack
    /\ drawn' = drawn
    /\ resolved' = resolved
    /\ log' = log \o ExitEvents(n)

\* visit_node on a node that is not rendered: it returns at once.
VisitNodeSkip ==
    /\ pc = "walk"
    /\ Top.todo # <<>>
    /\ ~NextCall.relaxed
    /\ ~should_render_node(NextCall.node)
    /\ stack' = Advanced
    /\ UNCHANGED <<doc, options, pc, tstack, nstack, vstack, drawn, log, resolved>>

\* visit_node on a rendered node: visit_enter, and the call stays open for
\* the referenced node or the children.
VisitNodeEnter ==
    /\ pc = "walk"
    /\ Top.todo # <<>>
    /\ ~NextCall.relaxed
    /\ should_render_node(NextCall.node)
    /\ Len(stack) < MaxDepth
    /\ IsNone(Panic(NextCall.node, options))
    /\ visit_enter(NextCall.node)
    /\ stack' = Append(Advanced, Frame(NextCall.node, FALSE, VisitNodeCalls(NextCall.node)))
    /\ UNCHANGED <<doc, options, pc>>

\* visit_use_referenced_node on a node that is no element or is hidden.
VisitUseReferencedNodeSkip ==
    /\ pc = "walk"
    /\ Top.todo # <<>>
    /\ NextCall.relaxed
    /\ UseReferencedNodeSkipped(NextCall.node)
    /\ stack' = Advanced
    /\ UNCHANGED <<doc, options, pc, tstack, nstack, vstack, drawn, log, resolved>>

\* visit_use_referenced_node on the node a use element references.
VisitUseReferencedNodeEnter ==
    /\ pc = "walk"
    /\ Top.todo # <<>>
    /\ NextCall.relaxed
    /\ ~UseReferencedNodeSkipped(NextCall.node)
    /\ Len(stack) < MaxDepth
    /\ IsNone(Panic(NextCall.node, options))
    /\ visit_enter(NextCall.node)
    /\ stack' = Append(Advanced,
                       Frame(NextCall.node, TRUE, VisitUseReferencedNodeCalls(NextCall.node)))
    /\ UNCHANGED <<doc, options, pc>>

\* The next call enters its node.
NextCallEnters ==
    IF NextCall.relaxed
    THEN ~UseReferencedNodeSkipped(NextCall.node)
    ELSE should_render_node(NextCall.node)

\* Either walker's call of visit_enter panics: the conversion is aborted.
VisitEnterPanics ==
    /\ pc = "walk"
    /\ Top.todo # <<>>
    /\ NextCallEnters
    /\ Len(stack) < MaxDepth
    /\ IsSome(Panic(NextCall.node, options))
    /\ visit_enter_panics(NextCall.node)
    /\ pc' = "panic"
    /\ UNCHANGED <<doc, options, stack>>

\* One nested call too many: the recursion overflows the call stack and the
\* process is killed.
StackOverflow ==
    /\ pc = "walk"
    /\ Top.todo # <<>>
    /\ NextCallEnters
    /\ Len(stack) = MaxDepth
    /\ pc' = "overflow"
    /\ UNCHANGED <<doc, options, stack, tstack, nstack, vstack, drawn, log, resolved>>

\* The end of either walker's call on a node: visit_exit.
VisitExit ==
    /\ pc = "walk"
    /\ Len(stack) > 1
    /\ Top.todo = <<>>
    /\ visit_exit(Top.node)
    /\ stack' = Pop(stack)
    /\ UNCHANGED <<doc, options, pc>>

\* depth_first_visit returns.
Return ==
    /\ pc = "walk"
    /\ Len(stack) = 1
    /\ Top.todo = <<>>
    /\ pc' = "done"
    /\ UNCHANGED <<doc, options, stack, tstack, nstack, vstack, drawn, log, resolved>>

Next ==
    \/ VisitNodeSkip
    \/ VisitNodeEnter
    \/ VisitUseReferencedNodeSkip
    \/ VisitUseReferencedNodeEnter
    \/ VisitEnterPanics
    \/ VisitExit
    \/ StackOverflow
    \/ Return

Spec == Init /\ [][Next]_vars

\* The guards of the three actions that call visit_enter: ENABLED of each,
\* written out.
VisitNodeEnterEnabled ==
    /\ pc = "walk"
    /\ Top.todo # <<>>
    /\ ~NextCall.relaxed
    /\ should_render_node(NextCall.node)
    /\ Len(stack) < MaxDepth
    /\ IsNone(Panic(NextCall.node, options))

VisitUseReferencedNodeEnterEnabled ==
    /\ pc = "walk"
    /\ Top.todo # <<>>
    /\ NextCall.relaxed
    /\ ~UseReferencedNodeSkipped(NextCall.node)
    /\ Len(stack) < MaxDepth
    /\ IsNone(Panic(NextCall.node, options))

VisitEnterPanicsEnabled ==
    /\ pc = "walk"
    /\ Top.todo # <<>>
    /\ NextCallEnters
    /\ Len(stack) < MaxDepth
    /\ IsSome(Panic(NextCall.node, options))

\* The walk is one sequential call: the step it can take, it takes.  Weak
\* fairness of every action; for the three actions that call visit_enter it
\* is stated with their guards in the place of ENABLED.
FairSpec ==
    /\ Spec
    /\ WF_vars(VisitNodeSkip)
    /\ WF_vars(VisitUseReferencedNodeSkip)
    /\ WF_vars(VisitExit)
    /\ WF_vars(StackOverflow)
    /\ WF_vars(Return)
    /\ []<>(~VisitNodeEnterEnabled) \/ []<><<VisitNodeEnter>>_vars
    /\ []<>(~VisitUseReferencedNodeEnterEnabled) \/ []<><<VisitUseReferencedNodeEnter>>_vars
    /\ []<>(~VisitEnterPanicsEnabled) \/ []<><<VisitEnterPanics>>_vars

(***************************************************************************)
(* Observations of a state of the walk.                                    *)
(***************************************************************************)
\* The nodes of the open walker calls, outermost first.
OpenNodes == [i \in 1..(Len(stack) - 1) |-> stack[i + 1].node]

\* The number of events of a kind in the log.
Count(ev) == Cardinality({i \in DOMAIN log : log[i].ev = ev})

\* The nodes visit_enter was called on so far.
Entered == {log[i].node : i \in {j \in DOMAIN log : log[j].ev = "enter"}}

Mismatch == <<-1>>

RECURSIVE Nesting(_, _)
\* The nodes entered and not yet exited after the events evs, starting from
\* the open nodes open; Mismatch if an exit does not match the latest
\* unmatched enter.
Nesting(evs, open) ==
    IF evs = <<>> THEN open
    ELSE IF Head(evs).ev = "enter" THEN Nesting(Tail(evs), Append(open, Head(evs).node))
    ELSE IF Head(evs).ev # "exit" THEN Nesting(Tail(evs), open)
    ELSE IF open # <<>> /\ open[Len(open)] = Head(evs).node THEN Nesting(Tail(evs), Pop(open))
    ELSE Mismatch

\* The open calls on svg and symbol elements among the first i calls.
Establishing(i) ==
    {j \in 2..i : doc[stack[j].node].tag \in {SVG_TAG_NAME, SYMBOL_TAG_NAME}}

\* a is n or an ancestor of n
IsAncestorOrSelf(a, n) == IF a = n THEN TRUE ELSE IsAncestor(a, n)

\* Call i is open beneath an open call of the relaxed walker on a node that
\* lies inside the subtree of a (a itself when self is TRUE) and is n or an
\* ancestor of n, n being the node of call i.
ThroughReference(i, a, self) ==
    \E j \in 2..i :
        /\ stack[j].relaxed
        /\ IF self THEN IsAncestorOrSelf(a, stack[j].node) ELSE IsAncestor(a, stack[j].node)
        /\ IsAncestorOrSelf(stack[j].node, stack[i].node)

NotDirectlyRendered == {DEFS_TAG_NAME, MARKER_TAG_NAME, SYMBOL_TAG_NAME}

(***************************************************************************)
(* C1-C2: the three stacks stay in step with the walk.                     *)
(***************************************************************************)
\* C1: when depth_first_visit returns, transform pushes equal transform
\* pops, name pushes equal name pops and viewport-dimension pushes equal
\* viewport-dimension pops, all three stacks are empty again, and only svg
\* and symbol elements pushed or popped a viewport dimension.
C1_StackBalance ==
    pc = "done" =>
        /\ Count("push_transform") = Count("pop_transform")
        /\ Count("push_name") = Count("pop_name")
        /\ Count("push_dim") = Count("pop_dim")
        /\ tstack = <<>> /\ nstack = <<>> /\ vstack = <<>>
        /\ \A i \in DOMAIN log :
              log[i].ev \in {"push_dim", "pop_dim"}
                 => doc[log[i].node].tag \in {SVG_TAG_NAME, SYMBOL_TAG_NAME}

\* A walk has returned after it entered an svg element and, through a use
\* reference, a symbol element.
C1_Witness ==
    /\ pc = "done"
    /\ Count("push_dim") >= 2
    /\ Count("push_transform") >= 4
    /\ \E n \in Entered : doc[n].tag = SYMBOL_TAG_NAME

\* C2: between visitor calls (a call that panicked has not returned) the
\* enter and exit calls made so far are well nested, the nodes entered and
\* not yet exited are those of the open walker calls, and the transform
\* stack and the name stack are as deep as there are such nodes; the
\* viewport-dimension stack is as deep as there are open svg and symbol
\* elements.
C2_LockStep ==
    pc # "panic" =>
        /\ Nesting(log, <<>>) = OpenNodes
        /\ Len(tstack) = Len(OpenNodes)
        /\ Len(nstack) = Len(OpenNodes)
        /\ Len(vstack) = Cardinality(Establishing(Len(stack)))

\* A symbol entered through a use reference is open, three nodes deep, and
\* nothing was drawn.
C2_Witness ==
    /\ pc = "walk"
    /\ Len(stack) = 4
    /\ Top.relaxed
    /\ doc[Top.node].tag = SYMBOL_TAG_NAME
    /\ drawn = <<>>

(***************************************************************************)
(* C3-C5: what the two walkers enter.                                      *)
(***************************************************************************)
\* C3 as stated: no hidden element and no node of a hidden element's subtree
\* is ever entered.
C3_Original ==
    \A i \in 2..Len(stack) :
        /\ ~IsHidden(stack[i].node)
        /\ \A h \in Nodes : IsAncestor(h, stack[i].node) => ~IsHidden(h)

\* C3, amended: a hidden element is never entered, and a node of its subtree
\* is entered only beneath an open use-referenced node that lies inside the
\* subtree of the hidden element.
C3_HiddenSkipped ==
    \A i \in 2..Len(stack) :
        /\ ~IsHidden(stack[i].node)
        /\ \A h \in Nodes :
              IsAncestor(h, stack[i].node) /\ IsHidden(h) => ThroughReference(i, h, FALSE)

\* A walk has returned that entered a node inside a hidden element, and the
\* hidden element itself was not entered.
C3_Witness ==
    /\ pc = "done"
    /\ \E n \in Entered : \E h \in Nodes \ Entered : IsAncestor(h, n) /\ IsHidden(h)

\* C4 as stated: a defs, marker or symbol element is entered only by the
\* relaxed walker, and the strict walker enters no such element and no
\* descendant of one.
C4_Original ==
    \A i \in 2..Len(stack) :
        /\ doc[stack[i].node].tag \in NotDirectlyRendered => stack[i].relaxed
        /\ ~stack[i].relaxed =>
              \A d \in Nodes :
                  IsAncestor(d, stack[i].node) => doc[d].tag \notin NotDirectlyRendered

\* C4, amended: a defs, marker or symbol element is entered only by the
\* relaxed walker, as the target of a use reference, and a descendant of
\* such an element is entered only beneath an open use-referenced node that
\* is the element itself or lies inside its subtree.
C4_DefinitionsByReference ==
    \A i \in 2..Len(stack) :
        /\ doc[stack[i].node].tag \in NotDirectlyRendered =>
              /\ stack[i].relaxed
              /\ doc[stack[i - 1].node].tag = USE_TAG_NAME
              /\ resolve_use_href(stack[i - 1].node) = Some(stack[i].node)
        /\ \A d \in Nodes :
              IsAncestor(d, stack[i].node) /\ doc[d].tag \in NotDirectlyRendered
                 => ThroughReference(i, d, TRUE)

\* The strict walker has entered a rect inside a symbol that a use element
\* references, and the rect was drawn.
C4_Witness ==
    /\ Len(stack) >= 4
    /\ ~Top.relaxed
    /\ doc[Top.node].tag = RECT_TAG_NAME
    /\ doc[stack[Len(stack) - 1].node].tag = SYMBOL_TAG_NAME
    /\ stack[Len(stack) - 1].relaxed
    /\ drawn # <<>>

\* C5: while a use element whose href does not resolve is open, no other
\* node is entered.
C5_UnresolvedUseNoDescent ==
    \A i \in 2..Len(stack) :
        ( /\ ~stack[i].relaxed
          /\ doc[stack[i].node].tag = USE_TAG_NAME
          /\ IsNone(resolve_use_href(stack[i].node)) )
        => i = Len(stack)

(***************************************************************************)
(* C6-C7: termination and reference cycles.                                *)
(***************************************************************************)
\* The use elements whose reference resolves, and what they reference.
ResolvedUses == {u \in Nodes : doc[u].tag = USE_TAG_NAME /\ IsSome(resolve_use_href(u))}
Target(u) == Unwrap(resolve_use_href(u))

RECURSIVE LeadsBack(_, _, _)
\* t is a use element whose reference leads to u in at most k steps through
\* use elements.
LeadsBack(u, t, k) ==
    /\ k > 0
    /\ t \in ResolvedUses
    /\ \/ Target(t) = u
       \/ LeadsBack(u, Target(t), k - 1)

\* The reference cycles as C6 and C7 list them: a use element that
\* references itself, another use element that leads back to it, or one of
\* its own ancestors.
HasReferenceCycle ==
    \E u \in ResolvedUses :
        \/ Target(u) = u
        \/ LeadsBack(u, Target(u), Len(doc))
        \/ IsAncestor(Target(u), u)

\* The document's elements that are rendered where they stand, and those a
\* reference renders.
Rendered(n) ==
    /\ doc[n].tag \notin {TEXT_NODE, DEFS_TAG_NAME, MARKER_TAG_NAME, SYMBOL_TAG_NAME}
    /\ ~IsHidden(n)
RenderedByReference(n) == doc[n].tag # TEXT_NODE /\ ~IsHidden(n)

ChildrenOf(n) == {m \in Nodes : doc[m].parent = n}

\* The walker calls a walker call leads to directly, read off the document:
\* <<n, FALSE>> is the strict walk of n, <<n, TRUE>> the walk of n as the
\* target of a reference.
LeadsTo(c) ==
    IF c[2]
    THEN IF RenderedByReference(c[1]) THEN {<<m, FALSE>> : m \in ChildrenOf(c[1])} ELSE {}
    ELSE IF ~Rendered(c[1]) THEN {}
    ELSE IF c[1] \in ResolvedUses THEN {<<Target(c[1]), TRUE>>}
    ELSE {<<m, FALSE>> : m \in ChildrenOf(c[1])}

RECURSIVE Closure(_)
Closure(S) ==
    LET T == S \cup UNION {LeadsTo(c) : c \in S}
    IN  IF T = S THEN S ELSE Closure(T)

\* The walk reaches a walker call that leads back to itself: visit_node on a
\* use element, reached again inside the content walked for the node the use
\* element references.
WalkRecurses ==
    \E c \in Closure({<<m, FALSE>> : m \in ChildrenOf(0)}) : c \in Closure(LeadsTo(c))

\* No attribute of the document is malformed.
WellFormed ==
    \A n \in Nodes :
        /\ ~TransformFails(n)
        /\ ~ViewBoxFails(n)
        /\ ~AspectRatioFails(n)
        /\ IsSome(doc[n].d) => ~PathDataFails(Unwrap(doc[n].d))

\* C6 as stated: without a reference cycle of the three listed kinds the
\* walk never recurses beyond the call stack.
C6_Original == ~HasReferenceCycle => pc # "overflow"

\* C6, amended: when no walker call the walk reaches leads back to itself
\* and no attribute is malformed, depth_first_visit returns, with every
\* entered node exited.
C6_Terminates ==
    ~WalkRecurses /\ WellFormed
        => <>(pc = "done" /\ Len(stack) = 1 /\ Nesting(log, <<>>) = <<>>)

\* The walk of a document with a resolved use reference has returned.
C6_Witness ==
    /\ pc = "done"
    /\ ~WalkRecurses
    /\ \E u \in ResolvedUses : {u, Target(u)} \subseteq Entered

\* C7 as stated: with a reference cycle of the three listed kinds the walk
\* never returns.
C7_Original == HasReferenceCycle => pc # "done"

\* C7, amended: when the walk reaches a walker call that leads back to
\* itself and no attribute is malformed, the recursion grows until it
\* overflows the call stack, and the walk never returns.
C7_Recurses ==
    WalkRecurses /\ WellFormed => <>[](pc = "overflow" /\ Len(stack) = MaxDepth)

\* The recursion has overflowed the call stack.
C7_Witness == pc = "overflow" /\ WalkRecurses /\ Len(tstack) = MaxDepth - 1

(***************************************************************************)
(* C8: the viewport an svg element establishes from its view box.          *)
(***************************************************************************)
\* Node n is an svg element with viewBox "0 0 w h", w and h positive, and no
\* width, height, x, y or transform attribute, and no dimension is
\* overridden.
IsBareViewBoxSvg(n) ==
    /\ doc[n].tag = SVG_TAG_NAME
    /\ IsSome(doc[n].viewBox)
    /\ Unwrap(doc[n].viewBox)[1] = Zero /\ Unwrap(doc[n].viewBox)[2] = Zero
    /\ Unwrap(doc[n].viewBox)[3][1] > 0 /\ Unwrap(doc[n].viewBox)[4][1] > 0
    /\ \A a \in {"width", "height", "x", "y"} : IsNone(doc[n].len[a])
    /\ IsNone(doc[n].transform)
    /\ options.dimensions = <<None, None>>

\* The entry of the viewport-dimension stack that open call i pushed.
DimOf(i) == vstack[Cardinality(Establishing(i))]

\* C8: such an svg element pushes (w, h) onto the viewport-dimension stack
\* and a transform that maps (x, y) to (x, y - h): (0, 0) to (0, -h) and
\* (w, h) to (w, 0).
C8_ViewBoxFlip ==
    \A i \in 2..Len(stack) :
        IsBareViewBoxSvg(stack[i].node) =>
            LET w == Unwrap(doc[stack[i].node].viewBox)[3]
                h == Unwrap(doc[stack[i].node].viewBox)[4]
            IN  /\ DimOf(i) = <<w, h>>
                /\ TransformPoint(tstack[i - 1], <<Zero, Zero>>) = <<Zero, RNeg(h)>>
                /\ TransformPoint(tstack[i - 1], <<w, h>>) = <<w, Zero>>
                /\ \A x \in -1..1 : \A y \in -1..1 :
                      TransformPoint(tstack[i - 1], <<R(x), R(y)>>) = <<R(x), RSub(R(y), h)>>

\* <svg viewBox="0 0 100 50"> is open: it pushed (100, 50) and a transform
\* that maps (0, 0) to (0, -50) and (100, 50) to (100, 0).
C8_Witness ==
    /\ doc = ViewBoxDoc
    /\ Len(stack) = 2
    /\ IsBareViewBoxSvg(Top.node)
    /\ vstack = << <<R(100), R(50)>> >>
    /\ TransformPoint(tstack[1], <<R(0), R(0)>>) = <<R(0), R(-50)>>
    /\ TransformPoint(tstack[1], <<R(100), R(50)>>) = <<R(100), R(0)>>

(***************************************************************************)
(* C9-C10: the segments of a rect.                                         *)
(***************************************************************************)
\* The number of calls of visit_enter on node n that returned.
EnterCount(n) ==
    Cardinality({i \in DOMAIN log : log[i].ev = "push_name" /\ log[i].node = n})

\* The segment sequences handed to the sink for node n.
DrawnFor(n) == {i \in DOMAIN drawn : drawn[i].node = n}

Rects == {n \in Nodes : doc[n].tag = RECT_TAG_NAME}

Len0(n, a) == UnwrapOr(doc[n].len[a], Zero)

HasSize(n) == IsSome(doc[n].len["width"]) /\ IsSome(doc[n].len["height"])

\* C9: a rect with width w and height h and no rx or ry attribute hands the
\* sink, each time it is entered, the 6 segments move (x, y), horizontal
\* line to x+w, vertical line to y+h, horizontal line to x, vertical line
\* to y, close; a rect without width or height hands it nothing.
C9_SharpRect ==
    \A n \in Rects :
        /\ ~HasSize(n) => DrawnFor(n) = {}
        /\ HasSize(n) /\ IsNone(doc[n].len["rx"]) /\ IsNone(doc[n].len["ry"]) =>
              /\ Cardinality(DrawnFor(n)) = EnterCount(n)
              /\ \A i \in DrawnFor(n) :
                    drawn[i].path =
                        << <<"MoveTo", Len0(n, "x"), Len0(n, "y")>>,
                           <<"HorizontalLineTo", RAdd(Len0(n, "x"), Len0(n, "width"))>>,
                           <<"VerticalLineTo", RAdd(Len0(n, "y"), Len0(n, "height"))>>,
                           <<"HorizontalLineTo", Len0(n, "x")>>,
                           <<"VerticalLineTo", Len0(n, "y")>>,
                           <<"ClosePath">> >>

\* A rect at (2, 1) with width 2, height 1 and no radius was drawn, a rect
\* without a height was entered and not drawn, and the walk has returned.
C9_Witness ==
    /\ pc = "done"
    /\ doc = RectPairDoc
    /\ Cardinality(DrawnFor(2)) = 1
    /\ EnterCount(3) = 1 /\ DrawnFor(3) = {}

\* C10: a rect with width and height and rx > 0 and ry > 0 hands the sink,
\* each time it is entered, exactly 10 segments: a move to (x+rx, y), then
\* line, arc, line, arc, line, arc, line, arc, then close, the last arc
\* ending at (x+rx, y).
C10_RoundedRect ==
    \A n \in Rects :
        HasSize(n) /\ Len0(n, "rx")[1] > 0 /\ Len0(n, "ry")[1] > 0 =>
            /\ Cardinality(DrawnFor(n)) = EnterCount(n)
            /\ \A i \in DrawnFor(n) :
                  /\ [k \in 1..Len(drawn[i].path) |-> drawn[i].path[k][1]] =
                        << "MoveTo", "HorizontalLineTo", "EllipticalArc", "VerticalLineTo",
                           "EllipticalArc", "HorizontalLineTo", "EllipticalArc",
                           "VerticalLineTo", "EllipticalArc", "ClosePath" >>
                  /\ drawn[i].path[1] =
                        <<"MoveTo", RAdd(Len0(n, "x"), Len0(n, "rx")), Len0(n, "y")>>
                  /\ drawn[i].path[9][4] = drawn[i].path[1][2]
                  /\ drawn[i].path[9][5] = drawn[i].path[1][3]

\* A rect with different positive radii on the two axes was drawn.
C10_Witness ==
    /\ pc = "done"
    /\ \E n \in Rects :
          /\ HasSize(n) /\ Len0(n, "rx")[1] > 0 /\ Len0(n, "ry")[1] > 0
          /\ Len0(n, "rx") # Len0(n, "ry")
          /\ IsSome(doc[n].len["x"])
          /\ DrawnFor(n) # {}

(***************************************************************************)
(* C11: a rect whose radii are not both positive.                          *)
(***************************************************************************)
\* The sharp rectangle of rect n, its corners at the rectangle's corners.
SharpCorners(n) ==
    << <<"MoveTo", Len0(n, "x"), Len0(n, "y")>>,
       <<"HorizontalLineTo", RAdd(Len0(n, "x"), Len0(n, "width"))>>,
       <<"VerticalLineTo", RAdd(Len0(n, "y"), Len0(n, "height"))>>,
       <<"HorizontalLineTo", Len0(n, "x")>>,
       <<"VerticalLineTo", Len0(n, "y")>>,
       <<"ClosePath">> >>

\* C11: a rect with width and height whose rx and ry are not both strictly
\* positive hands the sink, each time it is entered, the sharp rectangle:
\* move (x, y), horizontal line to x+w, vertical line to y+h, horizontal
\* line to x, vertical line to y, close.
C11_NoRoundingIsSharp ==
    \A n \in Rects :
        HasSize(n) /\ ~(Len0(n, "rx")[1] > 0 /\ Len0(n, "ry")[1] > 0) =>
            /\ Cardinality(DrawnFor(n)) = EnterCount(n)
            /\ \A i \in DrawnFor(n) : drawn[i].path = SharpCorners(n)

(***************************************************************************)
(* C12-C13: the segments of the other primitives.                          *)
(***************************************************************************)
Polys == {n \in Nodes : doc[n].tag \in {POLYLINE_TAG_NAME, POLYGON_TAG_NAME}}

\* Move to the first point, then one line to each subsequent point.
MoveThenLines(points) ==
    [i \in 1..Len(points) |->
        IF i = 1 THEN <<"MoveTo", points[1][1], points[1][2]>>
        ELSE <<"LineTo", points[i][1], points[i][2]>>]

\* C12: a polyline or polygon whose points attribute holds the points
\* p1..pn, n >= 1, hands the sink, each time it is entered, a move to p1 and
\* one line to each of p2..pn, n segments, and for a polygon one close after
\* them; without a points attribute it hands the sink nothing.
C12_PolySegments ==
    \A n \in Polys :
        /\ IsNone(doc[n].points) => DrawnFor(n) = {}
        /\ IsSome(doc[n].points) /\ Len(Unwrap(doc[n].points)) >= 1 =>
              /\ Cardinality(DrawnFor(n)) = EnterCount(n)
              /\ \A i \in DrawnFor(n) :
                    drawn[i].path =
                        MoveThenLines(Unwrap(doc[n].points))
                        \o (IF doc[n].tag = POLYGON_TAG_NAME THEN <<ClosePath>> ELSE <<>>)

\* The primitives whose outline is closed.
ClosedTags == {POLYGON_TAG_NAME, RECT_TAG_NAME, CIRCLE_TAG_NAME, ELLIPSE_TAG_NAME}

\* C13: every segment sequence handed to the sink is empty or complete: it
\* starts with a move, it ends with a close when the primitive is a closed
\* one, and it is not the leading part of path data that stops parsing.
C13_AllOrNothing ==
    \A i \in DOMAIN drawn :
        \/ drawn[i].path = <<>>
        \/ /\ drawn[i].path[1][1] = "MoveTo"
           /\ doc[drawn[i].node].tag \in ClosedTags =>
                 drawn[i].path[Len(drawn[i].path)] = <<"ClosePath">>
           /\ doc[drawn[i].node].tag = PATH_TAG_NAME =>
                 ~PathDataFails(Unwrap(doc[drawn[i].node].d))

(***************************************************************************)
(* C14: where the vertical axis is flipped.                                *)
(***************************************************************************)
\* The flattened transform of the svg or symbol element of open call i
\* without a translation of the vertical axis: its own transform list and,
\* with a view box, the viewport transform.
WithoutFlip(i) ==
    LET n == stack[i].node
        size == IF doc[n].tag = SVG_TAG_NAME THEN SvgViewportSize(n, options) ELSE DimOf(i)
        pos == IF doc[n].tag = SVG_TAG_NAME THEN ViewportPos(n) ELSE <<None, None>>
    IN  IF IsSome(ViewBoxOf(n))
        THEN Then(OwnTransform(n),
                  get_viewport_transform(Unwrap(ViewBoxOf(n)), doc[n].par, size, pos))
        ELSE OwnTransform(n)

\* C14: no entered svg or symbol element other than the document's root
\* element appends the translation by (0, -(viewport_height + viewport_y))
\* to its flattened transform.
C14_FlipOnlyAtRoot ==
    \A i \in 2..Len(stack) :
        /\ doc[stack[i].node].parent # 0
        /\ doc[stack[i].node].tag \in {SVG_TAG_NAME, SYMBOL_TAG_NAME}
        => tstack[i - 1] = WithoutFlip(i)

(***************************************************************************)
(* C15-C16: the viewport size of a symbol and of an svg element.           *)
(***************************************************************************)
\* The viewport-dimension stack as it was when open call i entered its node.
DimsBelow(i) ==
    SubSeq(vstack, 1, Cardinality(Establishing(i)) - 1)

\* The width and height attributes of node n both resolve.
BothSizes(n) == IsSome(doc[n].len["width"]) /\ IsSome(doc[n].len["height"])

\* Node n has a view box of positive width and height.
HasValidBox(n) ==
    /\ IsSome(doc[n].viewBox)
    /\ Len(Unwrap(doc[n].viewBox)) = 4
    /\ Unwrap(doc[n].viewBox)[3][1] > 0
    /\ Unwrap(doc[n].viewBox)[4][1] > 0

\* C15 as stated: an entered symbol pushes its width and height if both
\* resolve, otherwise the extents of its valid view box, otherwise the top
\* of the viewport-dimension stack, which is never empty then.
C15_Original ==
    \A i \in 2..Len(stack) :
        doc[stack[i].node].tag = SYMBOL_TAG_NAME =>
            LET n == stack[i].node
            IN  IF BothSizes(n)
                THEN DimOf(i) = <<Unwrap(doc[n].len["width"]), Unwrap(doc[n].len["height"])>>
                ELSE IF HasValidBox(n)
                THEN DimOf(i) = <<Unwrap(doc[n].viewBox)[3], Unwrap(doc[n].viewBox)[4]>>
                ELSE /\ DimsBelow(i) # <<>>
                     /\ DimOf(i) = DimsBelow(i)[Len(DimsBelow(i))]

\* C15, amended: an entered symbol pushes its width and height if both
\* resolve, otherwise the extents of its valid view box, otherwise the top
\* of the viewport-dimension stack, and (1, 1) when that stack is empty,
\* which it is exactly when no svg or symbol element is open around the
\* symbol.
C15_SymbolViewportSize ==
    \A i \in 2..Len(stack) :
        doc[stack[i].node].tag = SYMBOL_TAG_NAME =>
            LET n == stack[i].node
            IN  /\ DimsBelow(i) = <<>> <=> Establishing(i - 1) = {}
                /\ IF BothSizes(n)
                   THEN DimOf(i) = <<Unwrap(doc[n].len["width"]), Unwrap(doc[n].len["height"])>>
                   ELSE IF HasValidBox(n)
                   THEN DimOf(i) = <<Unwrap(doc[n].viewBox)[3], Unwrap(doc[n].viewBox)[4]>>
                   ELSE IF DimsBelow(i) # <<>>
                   THEN DimOf(i) = DimsBelow(i)[Len(DimsBelow(i))]
                   ELSE DimOf(i) = <<One, One>>

\* A symbol with a width only and a view box of no width is open beneath a
\* use element of a document whose root element is a group: it pushed (1, 1).
C15_Witness ==
    /\ Len(stack) = 4
    /\ doc[stack[2].node].tag = GROUP_TAG_NAME
    /\ doc[Top.node].tag = SYMBOL_TAG_NAME
    /\ IsSome(doc[Top.node].len["width"]) /\ IsNone(doc[Top.node].len["height"])
    /\ IsSome(doc[Top.node].viewBox) /\ ~HasValidBox(Top.node)
    /\ vstack = << <<One, One>> >>

\* The width and the height of svg element n that are known: the override of
\* the axis if set, the attribute otherwise.
KnownSize(n) ==
    << IF IsSome(options.dimensions[1]) THEN options.dimensions[1] ELSE doc[n].len["width"],
       IF IsSome(options.dimensions[2]) THEN options.dimensions[2] ELSE doc[n].len["height"] >>

\* The viewport size of svg element n by the priority order of C16.
ByPriority(n) ==
    LET w == KnownSize(n)[1]
        h == KnownSize(n)[2]
        bw == Unwrap(doc[n].viewBox)[3]
        bh == Unwrap(doc[n].viewBox)[4]
    IN  IF IsSome(w) /\ IsSome(h) THEN <<Unwrap(w), Unwrap(h)>>
        ELSE IF IsSome(w) /\ HasValidBox(n) THEN <<Unwrap(w), RDiv(RMul(Unwrap(w), bh), bw)>>
        ELSE IF IsSome(h) /\ HasValidBox(n) THEN <<RDiv(RMul(Unwrap(h), bw), bh), Unwrap(h)>>
        ELSE IF HasValidBox(n) THEN <<bw, bh>>
        ELSE IF IsSome(w) THEN <<Unwrap(w), Unwrap(w)>>
        ELSE IF IsSome(h) THEN <<Unwrap(h), Unwrap(h)>>
        ELSE <<One, One>>

\* C16: the viewport size resolved for an entered svg element follows the
\* priority order (both known; one known and the ratio of the box; the box
\* extents; the known value on both axes; (1, 1)), a box of non-positive
\* width or height counting as absent, and the arm marked unreachable is
\* never taken.
C16_SvgViewportSize ==
    /\ \A k \in DOMAIN resolved :
          doc[resolved[k].node].tag = SVG_TAG_NAME =>
              resolved[k].viewport_size = ByPriority(resolved[k].node)
    /\ \A k \in DOMAIN log :
          log[k].ev = "panic" => log[k].what # "intrinsic ratio necessarily exists"
    /\ \A n \in Nodes :
          doc[n].tag = SVG_TAG_NAME =>
              Cardinality({k \in DOMAIN resolved : resolved[k].node = n}) = EnterCount(n)

\* An svg element with a view box wider than high, its width set by the
\* override alone and its height unknown, was entered: the height was
\* derived from the ratio of the box.
C16_Witness ==
    /\ pc = "done"
    /\ IsSome(options.dimensions[1]) /\ IsNone(options.dimensions[2])
    /\ IsNone(doc[1].len["width"]) /\ IsNone(doc[1].len["height"])
    /\ HasValidBox(1)
    /\ Unwrap(doc[1].viewBox)[3] = R(MaxLen) /\ Unwrap(doc[1].viewBox)[4] = One
    /\ resolved = <<[node |-> 1, viewport_size |-> <<R(MaxLen), One>>]>>

(***************************************************************************)
(* C17: the order of the functions of a transform list.                    *)
(***************************************************************************)
\* The map of one listed function, applied to a point.
ApplyFn(t, p) ==
    IF t[1] = "translate"
    THEN <<RAdd(p[1], t[2]), RAdd(p[2], t[3])>>
    ELSE <<RMul(p[1], t[2]), RMul(p[2], t[3])>>

RECURSIVE FirstListedFirst(_, _)
\* The point p mapped by the functions ts one after the other in the order
\* listed: every later-listed function after every earlier-listed one.
FirstListedFirst(ts, p) ==
    IF ts = <<>> THEN p ELSE FirstListedFirst(Tail(ts), ApplyFn(Head(ts), p))

RECURSIVE LastListedFirst(_, _)
\* The point p mapped by the functions ts one after the other from the last
\* listed to the first.
LastListedFirst(ts, p) ==
    IF ts = <<>> THEN p ELSE ApplyFn(Head(ts), LastListedFirst(Tail(ts), p))

\* The open calls on nodes whose flattened transform is their own transform
\* list alone.
OwnTransformOnly ==
    {i \in 2..Len(stack) :
        /\ IsSome(doc[stack[i].node].transform)
        /\ doc[stack[i].node].tag \notin {SVG_TAG_NAME, USE_TAG_NAME, SYMBOL_TAG_NAME}}

\* Three points that are not on one line: an affine map is known by them.
Probes == {<<Zero, Zero>>, <<One, Zero>>, <<One, R(2)>>}

\* C17 as stated: the transform pushed for a transform list maps a point as
\* the listed functions do when each later-listed one is applied after
\* every earlier-listed one.
C17_Original ==
    \A i \in OwnTransformOnly : \A p \in Probes :
        TransformPoint(tstack[i - 1], p)
            = FirstListedFirst(Unwrap(doc[stack[i].node].transform), p)

\* C17, amended: the transform pushed for a transform list maps a point as
\* the listed functions do when each later-listed one is applied before
\* every earlier-listed one, the last-listed first.
C17_LastListedFirst ==
    \A i \in OwnTransformOnly : \A p \in Probes :
        TransformPoint(tstack[i - 1], p)
            = LastListedFirst(Unwrap(doc[stack[i].node].transform), p)

\* <g transform="translate(1 2) scale(2 2)"> is open: its transform maps
\* (1, 1) to (3, 4), scaled first and translated then.
C17_Witness ==
    /\ doc = TransformDoc
    /\ Len(stack) = 3
    /\ Top.node = 2
    /\ TransformPoint(tstack[2], <<R(1), R(1)>>) = <<R(3), R(4)>>

(***************************************************************************)
(* C18: a view box on an element that establishes no viewport.             *)
(***************************************************************************)
\* The call of visit_enter whose last event is log[k] warned that a view box
\* is not supported on its node.
WarnedViewBox(k) ==
    \E j \in 1..k :
        /\ log[j] = Ev("warn", log[k].node, "view box is not supported")
        /\ \A m \in j..k : log[m].ev # "enter"

\* C18: every call of visit_enter on an element that carries a viewBox
\* attribute and is neither an svg nor a symbol element emits a diagnostic,
\* and the view box changes neither the transform the element pushes nor
\* the viewport-dimension stack.
C18_ViewBoxIgnored ==
    /\ \A k \in DOMAIN log :
          /\ log[k].ev = "push_name"
          /\ IsSome(doc[log[k].node].viewBox)
          /\ doc[log[k].node].tag \notin {SVG_TAG_NAME, SYMBOL_TAG_NAME}
          => WarnedViewBox(k)
    /\ \A i \in 2..Len(stack) :
          /\ IsSome(doc[stack[i].node].viewBox)
          /\ doc[stack[i].node].tag \notin {SVG_TAG_NAME, SYMBOL_TAG_NAME}
          => /\ tstack[i - 1] =
                   IF doc[stack[i].node].tag = USE_TAG_NAME
                   THEN Then(OwnTransform(stack[i].node),
                             Translation(Len0(stack[i].node, "x"), Len0(stack[i].node, "y")))
                   ELSE OwnTransform(stack[i].node)
             /\ Len(vstack) = Cardinality(Establishing(Len(stack)))
             /\ i \notin Establishing(Len(stack))

(***************************************************************************)
(* C19: what aborts the conversion.                                        *)
(***************************************************************************)
\* Node n carries a viewBox, preserveAspectRatio, transform or d attribute
\* that does not parse.
HasMalformed(n) ==
    \/ IsSome(doc[n].viewBox) /\ Len(Unwrap(doc[n].viewBox)) # 4
    \/ doc[n].par = Some(Malformed)
    \/ IsSome(doc[n].transform)
          /\ \E i \in DOMAIN Unwrap(doc[n].transform) : Unwrap(doc[n].transform)[i] = ParseError
    \/ IsSome(doc[n].d) /\ \E i \in DOMAIN Unwrap(doc[n].d) : Unwrap(doc[n].d)[i] = ParseError

\* Node n carries an attribute that does not parse where visit_enter parses
\* it: transform on any element, viewBox and preserveAspectRatio on an svg
\* or symbol element, d on a path element.
HasMalformedParsed(n) ==
    \/ IsSome(doc[n].transform)
          /\ \E i \in DOMAIN Unwrap(doc[n].transform) : Unwrap(doc[n].transform)[i] = ParseError
    \/ /\ doc[n].tag \in {SVG_TAG_NAME, SYMBOL_TAG_NAME}
       /\ \/ IsSome(doc[n].viewBox) /\ Len(Unwrap(doc[n].viewBox)) # 4
          \/ doc[n].par = Some(Malformed)
    \/ /\ doc[n].tag = PATH_TAG_NAME
       /\ IsSome(doc[n].d)
       /\ \E i \in DOMAIN Unwrap(doc[n].d) : Unwrap(doc[n].d)[i] = ParseError

\* The call of visit_enter that starts at log[k] aborted the conversion: it
\* panicked, and no node was entered or exited after it.
Aborted(k) ==
    /\ pc = "panic"
    /\ log[Len(log)].ev = "panic"
    /\ log[Len(log)].node = log[k].node
    /\ \A m \in (k + 1)..Len(log) : log[m].ev \notin {"enter", "exit"}

\* The call of visit_enter that starts at log[k] returned, its transform and
\* its name pushed.
Returned(k) ==
    \E j \in (k + 1)..Len(log) :
        /\ log[j] = Ev("push_name", log[k].node, "")
        /\ \E t \in (k + 1)..j : log[t] = Ev("push_transform", log[k].node, "")
        /\ \A m \in (k + 1)..j : log[m].ev \notin {"enter", "exit", "panic"}

\* After a returned walk every entered node was exited as often as entered,
\* and the children of an entered node that is no use element with a
\* resolved reference were entered unless the visibility filter skips them.
ChildrenVisited ==
    pc = "done" =>
        /\ Nesting(log, <<>>) = <<>>
        /\ \A n \in Entered : \A c \in ChildrenOf(n) :
              n \notin ResolvedUses /\ Rendered(c) => c \in Entered

\* C19 as stated: entering an element that carries a malformed viewBox,
\* preserveAspectRatio, transform or path data aborts the conversion, and
\* entering any other element does not.
C19_Original ==
    \A k \in DOMAIN log :
        log[k].ev = "enter" =>
            IF HasMalformed(log[k].node) THEN Aborted(k) ELSE Returned(k)

\* C19, amended: entering an element aborts the conversion when it carries
\* a malformed attribute that visit_enter parses for its kind (transform on
\* any element, viewBox and preserveAspectRatio on svg and symbol, d on
\* path); every other call of visit_enter returns with the node pushed, and
\* a walk without abort pops every node and visits its children.
C19_AbortWhenParsed ==
    /\ \A k \in DOMAIN log :
          log[k].ev = "enter" =>
              IF HasMalformedParsed(log[k].node) THEN Aborted(k) ELSE Returned(k)
    /\ pc = "panic" <=> \E k \in DOMAIN log : log[k].ev = "panic"
    /\ ChildrenVisited

\* The conversion was aborted in a nested svg element whose viewBox does not
\* parse, after the root element was entered; entering its sibling, a rect,
\* would have followed.
C19_Witness ==
    /\ pc = "panic"
    /\ Entered = {1, 2}
    /\ doc[2].tag = SVG_TAG_NAME
    /\ IsSome(doc[2].viewBox) /\ Len(Unwrap(doc[2].viewBox)) # 4
    /\ log[Len(log)] = Ev("panic", 2, "could not parse viewBox")
    /\ Len(tstack) = 1

(***************************************************************************)
(* C20: the order of the calls on the sink.                                *)
(***************************************************************************)
\* The positions of the log with an event of the given kind.
EventsOf(ev) == {k \in DOMAIN log : log[k].ev = ev}

\* The depth of the sink's transform stack after the first k events.
DepthAt(k) ==
    Cardinality({j \in 1..k : log[j].ev = "push_transform"})
    - Cardinality({j \in 1..k : log[j].ev = "pop_transform"})

\* The position of the i-th draw of the log.
DrawAt(i) ==
    CHOOSE k \in EventsOf("draw") : Cardinality({j \in EventsOf("draw") : j <= k}) = i

\* C20: a node's segments are drawn after the node's own transform was
\* pushed, with no transform pushed or popped and no node entered or exited
\* in between, so the node's transform is the top of the transform stack at
\* the draw; the node's name is pushed after the draw, before any other node
\* is entered.
C20_DrawUnderOwnTransform ==
    /\ Len(drawn) = Cardinality(EventsOf("draw"))
    /\ Len(tstack) = DepthAt(Len(log))
    /\ \A i \in DOMAIN drawn :
          LET k == DrawAt(i)
          IN  /\ log[k].node = drawn[i].node
              /\ drawn[i].depth = DepthAt(k)
              /\ \E j \in 1..(k - 1) :
                    /\ log[j] = Ev("push_transform", drawn[i].node, "")
                    /\ \A m \in (j + 1)..k :
                          log[m].ev \notin {"push_transform", "pop_transform", "enter",
                                            "exit", "push_name"}
              /\ \A m \in (k + 1)..Len(log) :
                    log[m].ev \in {"enter", "pop_transform"} =>
                        \E j \in (k + 1)..(m - 1) :
                            log[j] = Ev("push_name", drawn[i].node, "")
                            \/ log[j].ev = "panic"

\* A rect inside a symbol was drawn through a use reference, four transforms
\* deep, and the walk has returned.
C20_Witness ==
    /\ pc = "done"
    /\ \E i \in DOMAIN drawn :
          /\ drawn[i].depth = 4
          /\ doc[drawn[i].node].tag = RECT_TAG_NAME
          /\ doc[doc[drawn[i].node].parent].tag = SYMBOL_TAG_NAME

(***************************************************************************)
(* C21: what is walked between the enter and the exit of a use element.    *)
(***************************************************************************)
RECURSIVE DepthsFrom(_, _)
\* The numbers of nodes entered and not exited after each of the events from
\* position k on, d of them being open before position k.
DepthsFrom(k, d) ==
    IF k > Len(log) THEN <<>>
    ELSE LET e == IF log[k].ev = "enter" THEN d + 1
                  ELSE IF log[k].ev = "exit" THEN d - 1
                  ELSE d
         IN  <<e>> \o DepthsFrom(k + 1, e)

\* D[k] is the number of nodes entered and not exited after the first k
\* events of the log.
WalkDepths == DepthsFrom(1, 0)

\* The latest of the positions in S.
Latest(S) == CHOOSE j \in S : \A k \in S : k <= j

\* The position in the log of the visit_enter of the open call i.
EnterAt(D, i) == Latest({j \in EventsOf("enter") : D[j] = i - 1})

\* The calls of visit_enter made so far by the open call i itself, not by
\* the calls beneath it.
DirectEnters(D, i) ==
    LET at == EnterAt(D, i)
    IN  {j \in EventsOf("enter") : j > at /\ D[j] = i}

\* The calls of visit_enter made so far by the open call i and the calls
\* beneath it.
EntersWithin(D, i) ==
    LET at == EnterAt(D, i)
    IN  {j \in EventsOf("enter") : j > at}

\* The open calls of visit_node on a use element whose reference resolves.
ResolvingCalls ==
    {i \in 2..Len(stack) : ~stack[i].relaxed /\ stack[i].node \in ResolvedUses}

\* The open call i has made all its calls and they have returned.
AllReturned(i) == pc = "walk" /\ i = Len(stack) /\ stack[i].todo = <<>>

\* The position in the log of the visit_enter of the call that made the
\* call entering at position j.
CallerOf(D, j) == Latest({k \in EventsOf("enter") : k < j /\ D[k] = D[j] - 1})

\* The node entered at position j is the one its caller, a use element,
\* references.
EnteredAsTarget(D, j) ==
    LET c == log[CallerOf(D, j)].node
    IN  c \in ResolvedUses /\ Target(c) = log[j].node

\* The call entering at position j of the log has returned.
Exited(D, j) ==
    \E k \in EventsOf("exit") :
        k > j /\ log[k].node = log[j].node /\ D[k] = D[j] - 1

\* The walker that makes each open call, and the node it is made on: the
\* call beneath visit_node on a resolving use element is the relaxed walker
\* on the referenced node; the relaxed walker is called by such a use only,
\* and the calls it makes are of the strict walker on the literal children
\* of its node, also when its node is a use element with an href.
WalkersDescend(D) ==
    \A i \in 2..Len(stack) :
        /\ (i \in ResolvingCalls /\ i < Len(stack)) =>
               (stack[i + 1].relaxed /\ stack[i + 1].node = Target(stack[i].node))
        /\ stack[i].relaxed =>
               /\ (i - 1) \in ResolvingCalls
               /\ Target(stack[i - 1].node) = stack[i].node
               /\ \A j \in DirectEnters(D, i) : doc[log[j].node].parent = stack[i].node
               /\ i < Len(stack) =>
                      (~stack[i + 1].relaxed /\ doc[stack[i + 1].node].parent = stack[i].node)

\* C21 as stated: once visit_node on a use element that resolves its
\* reference has made its calls, the referenced node was entered and exited
\* exactly once by it, and no literal child of the use element was entered
\* since the use element was; the walkers descend as WalkersDescend says.
C21_Original ==
    LET D == WalkDepths
    IN  /\ WalkersDescend(D)
        /\ \A i \in ResolvingCalls :
              AllReturned(i) =>
                  LET direct == DirectEnters(D, i)
                  IN  /\ Cardinality(direct) = 1
                      /\ \A j \in direct :
                            log[j].node = Target(stack[i].node) /\ Exited(D, j)
                      /\ \A j \in EntersWithin(D, i) :
                            doc[log[j].node].parent # stack[i].node

\* C21, amended: visit_node on a use element that resolves its reference
\* makes one call, of the relaxed walker on the referenced node, and none on
\* the literal children of the use element.  The referenced node is entered
\* and exited exactly once by that call unless it is hidden, and then nothing
\* is entered.  A literal child of the use element is entered before the use
\* element is exited only as the node a use element references, or beneath a
\* call that entered the use element again, as the target of a reference.
\* The walkers descend as WalkersDescend says.
C21_UseWalksTarget ==
    LET D == WalkDepths
    IN  /\ WalkersDescend(D)
        /\ \A i \in ResolvingCalls :
              LET u == stack[i].node
                  t == Target(stack[i].node)
                  direct == DirectEnters(D, i)
                  within == EntersWithin(D, i)
              IN  /\ Cardinality(direct) <= 1
                  /\ \A j \in direct : log[j].node = t
                  /\ IsHidden(t) => within = {}
                  /\ (AllReturned(i) /\ ~IsHidden(t)) =>
                         /\ Cardinality(direct) = 1
                         /\ \A j \in direct : Exited(D, j)
                  /\ \A j \in within :
                         doc[log[j].node].parent = u =>
                             \/ EnteredAsTarget(D, j)
                             \/ \E k \in within :
                                    /\ k < j
                                    /\ log[k].node = u
                                    /\ D[k] < D[j]

\* visit_node on a use element has walked the symbol it references and is
\* about to exit: beneath the symbol a second use element resolved its own
\* reference, to the first use element, whose href was not followed there
\* and whose literal child was entered.
C21_Witness ==
    \E i \in ResolvingCalls :
        /\ AllReturned(i)
        /\ doc[Target(stack[i].node)].tag = SYMBOL_TAG_NAME
        /\ Cardinality(DirectEnters(WalkDepths, i)) = 1
        /\ \E j, k, m \in EntersWithin(WalkDepths, i) :
              /\ j < k /\ k < m
              /\ log[j].node \in ResolvedUses /\ log[j].node # stack[i].node
              /\ log[k].node = stack[i].node
              /\ doc[log[m].node].parent = stack[i].node

====
